---- MODULE Spec2Model ----
(***************************************************************************)
(* Model of the analyzer's crawl / rank / fetch / score pipeline:          *)
(*   - the streaming handler GET (event stream),                           *)
(*   - the JSON handler POST of parse-and-analyze, in its current and its   *)
(*     earlier variant,                                                     *)
(*   - the library functions tryOpenAIChatJson, inferBrandPositioning,      *)
(*     scoreCategory, analyzeConsolidated and analyzeConsolidatedStreaming. *)
(*   - the client page that opens the event stream (openParseSSE): its    *)
(*     message handler, its two timers and its Cancel button.              *)
(*   - the link classifier of parse-homepage (POST).                       *)
(* One behaviour is one request served by one server process; in the       *)
(* profile "rerun" the page may open a second run.  getOpenAIModelCandidates *)
(* and the prompt of inferBrandPositioning are also explored on their own   *)
(* (EnvSpec, PromptSpec).                                                   *)
(***************************************************************************)
EXTENDS Integers, Sequences, FiniteSets, TLC

\* ------------------------------------------------------------------------
\* Bounds of the explored inputs
\* ------------------------------------------------------------------------
\* number of product links on the largest category page that is explored
BigPage == 101
\* length of the longest list the ranking oracle answers with
LongAnswer == 11
\* runs the page opens in one behaviour
MaxRuns == 2
\* number of tokens of the longest AI_MODEL value that is explored
MaxEnvLen == 3
\* number of pages and of digital sources of the largest prompt that is explored
MaxPages == 3
MaxSources == 2

\* ------------------------------------------------------------------------
\* Program constants
\* ------------------------------------------------------------------------
MaxCollections == 3
UrlListCap == 100
TopCap == 10

COLLECTION_PATTERNS == {"collections", "category", "categories", "shop", "browse"}
PRODUCT_PATTERNS == {"products", "product", "item", "items", "p"}

\* the configured model candidates (AI_MODEL = "gpt-4o,gpt-4o-mini")
ModelCandidates == <<"gpt-4o", "gpt-4o-mini">>
NoModel == "none"
\* the model the JSON handler names in its direct ranking call
DirectModel == "gpt-4-turbo-preview"

\* the three scoring dimensions: key |-> title
CategoryKeys == <<"brandAlignment", "conversionEffectiveness", "seoAiBestPractices">>
CategoryTitle(k) ==
  CASE k = "brandAlignment" -> "Brand Alignment"
    [] k = "conversionEffectiveness" -> "Conversion Effectiveness"
    [] k = "seoAiBestPractices" -> "SEO and AI Best Practices"

\* reasons and placeholder strings
NoProductUrls == "No product URLs found on this website"
NoProductPages == "No product pages could be analyzed successfully"
PositioningFailed == "Unable to infer brand positioning"
SummaryFailed == "Unable to generate executive summary"
NotResponding == "not responding quickly enough, may be blocking automated requests"
AnalysisTimeout == "Analysis timeout"
UnableToAnalyze(title) == <<"Unable to analyze", title>>

\* ------------------------------------------------------------------------
\* Sequence helpers
\* ------------------------------------------------------------------------
Range(s) == {s[i] : i \in 1..Len(s)}
Min(a, b) == IF a < b THEN a ELSE b
\* (variant: the cap is not applied)
Slice_NoCap(s, n) == s
\* Array.prototype.slice(0, n)
Slice(s, n) == SubSeq(s, 1, Min(n, Len(s)))
RECURSIVE Flatten(_)
\* (variant: the last group comes first)
Flatten_LastFirst(ss) == IF ss = <<>> THEN <<>> ELSE Flatten(Tail(ss)) \o Head(ss)
\* Array.prototype.flatMap over a sequence of sequences
Flatten(ss) == IF ss = <<>> THEN <<>> ELSE Head(ss) \o Flatten(Tail(ss))
\* Array.prototype.map
Map(s, F(_)) == [i \in 1..Len(s) |-> F(s[i])]

\* ------------------------------------------------------------------------
\* URLs and links.  A URL is scheme://host/seg1/.../segk/id ; every path
\* segment is enclosed by slashes, so `url.includes('/x/')` is "x is one of
\* the segments".
\* ------------------------------------------------------------------------
Url(segs, id) == [scheme |-> "https", segs |-> segs, id |-> id]
Mailto(id) == [scheme |-> "mailto", segs |-> <<>>, id |-> id]
Link(u, t) == [url |-> u, text |-> t]

\* String.prototype.toLowerCase on a path segment
ToLowerCase(s) ==
  CASE s = "Collections" -> "collections"
    [] s = "Products" -> "products"
    [] s = "About" -> "about"
    [] s = "Both" -> "both"
    [] s = "Item" -> "item"
    [] s = "Kids toy" -> "kids toy"
    [] s = "Mail" -> "mail"
    [] s = "More" -> "more"
    [] s = "Shoes" -> "shoes"
    [] s = "Shoes again" -> "shoes again"
    [] s = "Shop" -> "shop"
    [] s = "Upper" -> "upper"
    [] s = "Widget" -> "widget"
    [] OTHER -> s

\* lower.includes(p) for some p of the pattern list
IncludesPattern(u, patterns) ==
  \E i \in 1..Len(u.segs) : ToLowerCase(u.segs[i]) \in patterns

\* ------------------------------------------------------------------------
\* The explored pages.  A fetched page is the sequence of its anchors.
\* ------------------------------------------------------------------------
ProductLink(i) == Link(Url(<<"products">>, i), "Item")

\* a homepage without any category link
HomeNone == << Link(Url(<<"pages">>, 1), "About") >>
\* a homepage with one category link
HomeOne == << Link(Url(<<"collections">>, 1), "Shoes"), Link(Mailto(1), "Mail") >>
\* a homepage with a repeated link, an upper-case path, an anchor without
\* text and more than three category links
HomeMany ==
  << Link(Url(<<"collections">>, 1), "Shoes"),
     Link(Url(<<"collections">>, 1), "Shoes again"),
     Link(Url(<<"Collections">>, 2), ""),
     ProductLink(7),
     Link(Url(<<"shop">>, 3), "Shop"),
     Link(Url(<<"category">>, 4), "More") >>

\* a homepage for the link classifier: a category path with a product path,
\* a product path, a product path under a category keyword in the text, a
\* link of neither kind, a /products/ link, and two links that are skipped
HomeMixed ==
  << Link(Url(<<"pages">>, 1), "About"),
     Link(Url(<<"product">>, 5), "Widget"),
     Link(Url(<<"shop", "product">>, 9), "Both"),
     Link(Url(<<"item">>, 6), "Kids toy"),
     ProductLink(7),
     Link(Mailto(1), "Mail"),
     Link(Url(<<"product">>, 8), "") >>

\* category pages
PageEmpty == << Link(Url(<<"pages">>, 1), "About") >>
PageSmall ==
  << ProductLink(1), ProductLink(2), ProductLink(2),
     Link(Url(<<"collections", "products">>, 9), "Both"),
     Link(Url(<<"Products">>, 3), "Upper"),
     Link(Mailto(2), "Mail") >>
PageOther == << ProductLink(2), ProductLink(4) >>
PageBig == [i \in 1..BigPage |-> ProductLink(i)]

\* a URL that is on no page of the site
FakeUrl == Url(<<"products">>, 0)

\* ------------------------------------------------------------------------
\* Input families.  `profile` names the part of the environment that varies
\* in a behaviour; everything else is the well-behaved default.
\* ------------------------------------------------------------------------
Profiles == {"site", "ranker", "models", "pages", "scores", "client", "rerun"}
Handlers == {"GET", "POST", "POST_v1", "parse-homepage"}

\* HTTP status of a fetch; 0 is a network error (fetch itself rejects)
HomeOutcomes(pf) ==
  CASE pf = "site" -> {[status |-> 200, html |-> h] : h \in {HomeNone, HomeOne, HomeMany}}
                       \cup {[status |-> st, html |-> <<>>] :
                               st \in {0, 401, 403, 404, 410, 429, 500, 501}}
    [] pf = "client" -> {[status |-> 200, html |-> HomeOne]}
                         \cup {[status |-> st, html |-> <<>>] : st \in {403, 410}}
    [] pf = "rerun" -> {[status |-> 200, html |-> HomeNone], [status |-> 403, html |-> <<>>]}
    [] OTHER -> {[status |-> 200, html |-> HomeOne]}
CollectionOutcomes(pf) ==
  CASE pf = "site" -> {[status |-> 200, html |-> h] : h \in {PageEmpty, PageSmall, PageOther}}
                       \cup {[status |-> 404, html |-> <<>>]}
    [] pf = "ranker" -> {[status |-> 200, html |-> h] : h \in {PageSmall, PageBig}}
    [] OTHER -> {[status |-> 200, html |-> PageSmall]}
\* a product page: its status and whether extractProductImage finds an image
ProductOutcomes(pf) ==
  IF pf = "pages" THEN {[status |-> 200, image |-> "img"], [status |-> 200, image |-> "null"],
                        [status |-> 500, image |-> "null"]}
  ELSE {[status |-> 200, image |-> "img"]}
\* may a generation request fail (API error, network error, unparsable JSON)?
AttemptMayFail(pf) == pf = "models"

\* answers of the oracle, as the parsed JSON value
RankItem(u) == [url |-> u, title |-> "title", reason |-> "popular"]
HonestRanking(sent) == [kind |-> "list", items |-> Map(Slice(sent, 3), RankItem)]
RankAnswers(pf, sent, all) ==
  IF pf # "ranker" THEN {HonestRanking(sent)}
  ELSE IF sent = <<>> THEN {HonestRanking(sent), [kind |-> "list", items |-> << RankItem(FakeUrl) >>]}
  ELSE { HonestRanking(sent),
         [kind |-> "nokey"],
         [kind |-> "notarray"],
         [kind |-> "list", items |-> <<>>],
         [kind |-> "list", items |-> << RankItem(FakeUrl), RankItem(Url(<<"Products">>, 1)) >>],
         [kind |-> "list", items |-> << RankItem(sent[1]), RankItem(FakeUrl), RankItem(sent[Len(sent)]) >>],
         [kind |-> "list", items |-> << RankItem(all[Len(all)]) >>],
         [kind |-> "list", items |->
             [i \in 1..LongAnswer |-> RankItem(sent[((i - 1) % Len(sent)) + 1])]] }
PositioningAnswers(pf) ==
  IF pf = "scores" THEN {[kind |-> "positioning", has |-> TRUE], [kind |-> "positioning", has |-> FALSE]}
  ELSE {[kind |-> "positioning", has |-> TRUE]}
ScoreAnswers(pf) ==
  IF pf = "scores"
  THEN {[kind |-> "score", hasScore |-> TRUE, score |-> sc, hasSummary |-> TRUE] : sc \in {0, 1, 72, 150}}
       \cup {[kind |-> "score", hasScore |-> FALSE, score |-> 0, hasSummary |-> TRUE],
             [kind |-> "score", hasScore |-> TRUE, score |-> 72, hasSummary |-> FALSE]}
  ELSE {[kind |-> "score", hasScore |-> TRUE, score |-> 72, hasSummary |-> TRUE]}
SummaryAnswers(pf) ==
  IF pf = "scores" THEN {[kind |-> "summary", has |-> TRUE], [kind |-> "summary", has |-> FALSE]}
  ELSE {[kind |-> "summary", has |-> TRUE]}

\* ------------------------------------------------------------------------
\* State
\* ------------------------------------------------------------------------
VARIABLES
  profile,               \* the input family of this behaviour
  handler,               \* the route handler serving the request
  pc,                    \* position of the handler
  cancelled,             \* the client has cancelled the event stream
  events,                \* the events enqueued on the stream, in order
  closed,                \* controller.close() has been called
  response,              \* the JSON response of the POST handlers
  homeStatus,            \* HTTP status of the homepage response; -1 before it, 0 network error
  homeHtml, collections, colFetch, collectionGroups, productLinks, urlList,
  rawTopProducts, validatedTopProducts, formattedTopProducts,
  pageFetch, pageContents, productsWithImages,
  brandPos, shuffledCategories, results, completedCount, executiveSummary,
  calls,                 \* the tryOpenAIChatJson call of every call site
  invocations,           \* <<function, pageContents.length>> of every analysis invocation
  cachedPreferredModel, failedModels,  \* module state of aiModel.ts
  \* the client page (explored in the profiles "client" and "rerun")
  es,                    \* the EventSource of the run: "none", "open", "closed"
  initialTimeout,        \* the 5 s timer: "unset", "armed", "cleared", "fired"
  overallTimeout,        \* the 120 s timer, likewise
  elapsed,               \* the time mark passed since the stream was opened: 0, 5, 120
  delivered,             \* number of events es.onmessage has handled
  isLoading, clientError, \* React state of the page
  run,                   \* number of runs the page has opened; the run in progress
  eventSourceRef,        \* eventSourceRef.current: 0 for null, else the run whose stream it is
  earlierSources,        \* readyState of the EventSource of every earlier run
  earlierTimers,         \* the timers of earlier runs that were armed when the next run opened
  \* the library functions that are explored on their own
  AI_MODEL,              \* process.env.AI_MODEL, as a sequence of tokens; <<>> when unset
  candidates,            \* the list getOpenAIModelCandidates returned, identifiers as token sequences
  contentLengths,        \* the lengths of page.content and source.content given to inferBrandPositioning
  prompt                 \* the number of characters of each content that are in the prompt

libVars == <<AI_MODEL, candidates, contentLengths, prompt>>
ctlVars == <<profile, handler, libVars>>
outVars == <<events, closed, response>>
crawlVars == <<homeStatus, homeHtml, collections, colFetch, collectionGroups, productLinks, urlList>>
rankVars == <<rawTopProducts, validatedTopProducts, formattedTopProducts>>
pageVars == <<pageFetch, pageContents, productsWithImages>>
scoreVars == <<brandPos, shuffledCategories, results, completedCount, executiveSummary>>
cacheVars == <<cachedPreferredModel, failedModels>>
histVars == <<run, earlierSources, earlierTimers>>
clientVars == <<es, initialTimeout, overallTimeout, elapsed, delivered, isLoading, clientError,
                eventSourceRef, histVars>>
vars == <<ctlVars, pc, cancelled, outVars, crawlVars, rankVars, pageVars, scoreVars,
          calls, invocations, cacheVars, clientVars>>

CallSites == {"rank", "positioning", "summary"} \cup Range(CategoryKeys)
NoAnswer == [kind |-> "none"]
\* direct: openai.chat.completions.create called by the handler itself;
\* cached: the call uses the module state of aiModel.ts; threw: the call
\* ended with an exception instead of a return value
IdleCall == [status |-> "idle", direct |-> FALSE, cached |-> FALSE, models |-> <<>>, idx |-> 0,
             tried |-> <<>>, ok |-> FALSE, threw |-> FALSE, val |-> NoAnswer, modelUsed |-> NoModel]
NoResponse == [status |-> 0]

\* ------------------------------------------------------------------------
\* aiModel.ts
\* ------------------------------------------------------------------------
\* String.prototype.trim on a sequence of tokens
Trim(s) ==
  LET kept == {i \in 1..Len(s) : s[i] # " "}
  IN  IF kept = {} THEN <<>>
      ELSE SubSeq(s, CHOOSE i \in kept : \A j \in kept : i <= j,
                     CHOOSE i \in kept : \A j \in kept : i >= j)
\* raw.split(',')
Split(s) ==
  LET commas == SelectSeq([i \in 1..Len(s) |-> i], LAMBDA i : s[i] = ",")
      cuts == <<0>> \o commas \o <<Len(s) + 1>>
  IN  [k \in 1..(Len(commas) + 1) |-> SubSeq(s, cuts[k] + 1, cuts[k + 1] - 1)]
\* entry.indexOf(':'), counted from 1; 0 when there is none
IndexOfColon(entry) ==
  IF \E i \in 1..Len(entry) : entry[i] = ":"
  THEN CHOOSE i \in 1..Len(entry) : entry[i] = ":" /\ \A j \in 1..(i - 1) : entry[j] # ":"
  ELSE 0
\* colon >= 0 ? entry.slice(colon + 1).trim() : entry
WithoutProvider(entry) ==
  IF IndexOfColon(entry) > 0
  THEN Trim(SubSeq(entry, IndexOfColon(entry) + 1, Len(entry)))
  ELSE entry
\* the body of getOpenAIModelCandidates for the value raw of AI_MODEL
Models(raw) ==
  IF Trim(raw) = <<>> THEN << <<"gpt-4o">> >>
  ELSE LET entries == SelectSeq(Map(Split(raw), Trim), LAMBDA part : part # <<>>)
           models == Map(entries, WithoutProvider)
       IN  IF models = <<>> THEN << <<"gpt-4o">> >> ELSE models
\* the string a token sequence spells: the token itself when there is one
Spell(tokens) ==
  IF tokens = <<>> THEN "" ELSE IF Len(tokens) = 1 THEN tokens[1] ELSE "(several tokens)"
\* AI_MODEL of the deployment that is explored
DeployedEnv == <<"gpt-4o", ",", " ", "gpt-4o-mini">>
\* getOpenAIModelCandidates() for the current AI_MODEL; ModelCandidates is its
\* value for DeployedEnv
getOpenAIModelCandidates ==
  IF AI_MODEL = DeployedEnv THEN ModelCandidates ELSE Map(Models(AI_MODEL), Spell)

\* (variant: the remembered model is not put in front)
ModelsToTry_NoPreference(cached, failed) ==
  SelectSeq(getOpenAIModelCandidates, LAMBDA m : m \notin failed)
\* the list of models a call tries, computed when the call starts
ModelsToTry(cached, failed) ==
  LET baseModels == SelectSeq(getOpenAIModelCandidates, LAMBDA m : m \notin failed)
  IN  IF cached # NoModel
      THEN <<cached>> \o SelectSeq(baseModels, LAMBDA m : m # cached)
      ELSE baseModels

\* the call record right after tryOpenAIChatJson was entered: with no model
\* to try the loop body never runs and {result: null} is returned
StartCall(cached, failed) ==
  LET models == ModelsToTry(cached, failed)
  IN  [IdleCall EXCEPT !.status = IF models = <<>> THEN "done" ELSE "running",
                       !.cached = TRUE, !.models = models, !.idx = 1]

\* the earlier variant of tryOpenAIChatJson, without module state: every call
\* tries the configured candidates
StartCall_v1 ==
  [IdleCall EXCEPT !.status = "running", !.models = getOpenAIModelCandidates, !.idx = 1]

\* the tryOpenAIChatJson a handler is built with: the earlier POST variant is
\* explored with the earlier variant of the function
StartCallFor(h) ==
  IF h = "POST_v1" THEN StartCall_v1 ELSE StartCall(cachedPreferredModel, failedModels)

\* the direct openai.chat.completions.create call of the POST handlers
StartDirectCall ==
  [IdleCall EXCEPT !.status = "running", !.direct = TRUE, !.models = <<DirectModel>>, !.idx = 1]

AnswersFor(c) ==
  CASE c = "rank" -> RankAnswers(profile, urlList, Map(productLinks, LAMBDA l : l.url))
    [] c = "positioning" -> PositioningAnswers(profile)
    [] c = "summary" -> SummaryAnswers(profile)
    [] OTHER -> ScoreAnswers(profile)

\* (variant: the models are taken from the end of the list)
ModelAt_Last(call) == call.models[Len(call.models)]
\* for (const model of models)
ModelAt(call) == call.models[call.idx]

\* the request to `model` and the parse of its answer `a` succeeded
Succeeded(call, model, a) ==
  [call EXCEPT !.status = "done", !.tried = Append(@, model), !.ok = TRUE, !.val = a,
               !.modelUsed = model]

\* (variant: the failure of a model is thrown to the caller)
Failed_Rethrow(call, model) ==
  [call EXCEPT !.status = "done", !.tried = Append(@, model), !.threw = TRUE]
\* the request to `model` failed (API error, network error, JSON.parse threw):
\* the catch block of tryOpenAIChatJson goes on with the next model, the
\* direct call of the POST handlers has no catch block of its own
Failed(call, model) ==
  IF call.direct
  THEN [call EXCEPT !.status = "done", !.tried = Append(@, model), !.threw = TRUE]
  ELSE [call EXCEPT !.tried = Append(@, model), !.idx = @ + 1,
                    !.status = IF call.idx = Len(call.models) THEN "done" ELSE "running"]

\* what a finished call hands to its caller
Returned(call) ==
  IF call.ok THEN [result |-> call.val, modelUsed |-> call.modelUsed]
  ELSE [result |-> "null", error |-> "All models failed"]

\* one generation request of call c settles
tryOpenAIChatJson(c) ==
  /\ calls[c].status = "running"
  /\ LET call == calls[c]
         model == ModelAt(call)
     IN  \/ \E a \in AnswersFor(c) :
              /\ calls' = [calls EXCEPT ![c] = Succeeded(call, model, a)]
              /\ cachedPreferredModel' = IF call.cached THEN model ELSE cachedPreferredModel
              /\ UNCHANGED failedModels
         \/ /\ AttemptMayFail(profile)
            /\ calls' = [calls EXCEPT ![c] = Failed(call, model)]
            /\ failedModels' = IF call.cached THEN failedModels \cup {model} ELSE failedModels
            /\ UNCHANGED cachedPreferredModel
  /\ UNCHANGED <<clientVars, ctlVars, pc, cancelled, outVars, crawlVars, rankVars, pageVars, scoreVars, invocations>>

\* ------------------------------------------------------------------------
\* Page fetching and link extraction
\* ------------------------------------------------------------------------
\* the message of the Error fetchHtml throws for a response that is not ok;
\* status 0 is fetch() itself rejecting
fetchHtml(status) ==
  CASE status = 0 -> "fetch failed"
    [] status = 403 -> "blocking automated requests"
    [] status = 404 -> "page not found"
    [] status = 429 -> "rate-limiting our requests"
    [] status \in {500, 502, 503, 504} -> "experiencing technical difficulties"
    [] status = 401 -> "requires authentication"
    [] OTHER -> "unable to access, may be blocking automated requests"

\* the streaming handler keeps every http(s) anchor, the POST handlers
\* also require a non-empty anchor text
parseLinks(html, h) ==
  SelectSeq(html, LAMBDA l : l.url.scheme = "https" /\ (h = "GET" \/ l.text # ""))

\* (variant: the seen set is not consulted)
PickCollections_NoSeen(links, acc) ==
  LET matching == SelectSeq(links, LAMBDA l : IncludesPattern(l.url, COLLECTION_PATTERNS))
  IN  [i \in 1..Min(Len(matching), MaxCollections) |-> matching[i]]
\* "Pick first 3 collection links"
RECURSIVE PickCollections(_, _)
PickCollections(links, acc) ==
  IF links = <<>> \/ Len(acc) >= MaxCollections THEN acc
  ELSE LET l == Head(links)
       IN  IF IncludesPattern(l.url, COLLECTION_PATTERNS) /\ l.url \notin {a.url : a \in Range(acc)}
           THEN PickCollections(Tail(links), Append(acc, l))
           ELSE PickCollections(Tail(links), acc)

\* (variant: seenProd is not consulted)
PickProducts_NoSeen(links) ==
  SelectSeq(links, LAMBDA l : IncludesPattern(l.url, PRODUCT_PATTERNS))
\* the product links of one category page: a link is pushed when its URL
\* has a product pattern and is not yet in seenProd, i.e. at the first
\* occurrence of its URL
PickProducts(links) ==
  LET pushed(i) == /\ IncludesPattern(links[i].url, PRODUCT_PATTERNS)
                   /\ \A j \in 1..(i - 1) : links[j].url # links[i].url
      indices == SelectSeq([i \in 1..Len(links) |-> i], pushed)
  IN  [n \in 1..Len(indices) |-> links[indices[n]]]

\* (variant: gathering stops at the first rejected fetch)
Fulfilled_UntilRejection(fetches) ==
  LET firstRejected == IF \E i \in 1..Len(fetches) : fetches[i].status = "rejected"
                       THEN CHOOSE i \in 1..Len(fetches) :
                              /\ fetches[i].status = "rejected"
                              /\ \A j \in 1..(i - 1) : fetches[j].status # "rejected"
                       ELSE Len(fetches) + 1
  IN  [i \in 1..(firstRejected - 1) |-> fetches[i].value]
\* the fulfilled values of a settled fan-out, in index order
Fulfilled(fetches) ==
  Map(SelectSeq(fetches, LAMBDA f : f.status = "fulfilled"), LAMBDA f : f.value)
AllSettled(fetches) == \A i \in 1..Len(fetches) : fetches[i].status # "pending"
Pending == [status |-> "pending"]
Rejected == [status |-> "rejected"]
\* the fetch that may settle next: any pending one in the parallel fan-out of
\* the streaming handler, the first pending one in the loops of the POST handlers
MaySettle(fetches, i, h) ==
  /\ i \in 1..Len(fetches)
  /\ fetches[i].status = "pending"
  /\ h # "GET" => \A j \in 1..(i - 1) : fetches[j].status # "pending"

\* ------------------------------------------------------------------------
\* The event stream
\* ------------------------------------------------------------------------
\* controller.enqueue throws once the client has cancelled the stream
SinkThrows == handler = "GET" /\ cancelled
\* (variant: new events are put in front of the queue)
Emit_Prepend(evs) == events' = evs \o events
\* controller.enqueue of each element of evs, in order
Emit(evs) == events' = events \o evs
ErrorEvent(reason) == [type |-> "error", error |-> reason]

\* an exception reaches the catch block of the handler: the streaming handler
\* reports it as an `error` event and closes (the enqueue in the catch block
\* throws again when the stream was cancelled), the POST handlers answer 500
Throw(reason) ==
  IF handler = "GET"
  THEN IF cancelled
       THEN pc' = "aborted" /\ UNCHANGED outVars
       ELSE pc' = "done" /\ Emit(<<ErrorEvent(reason)>>) /\ closed' = TRUE /\ UNCHANGED response
  ELSE pc' = "done" /\ response' = [status |-> 500, error |-> "Failed"] /\ UNCHANGED <<events, closed>>

\* (variant: the early return forgets controller.close())
ReturnError_NoClose(reason, groups, top) ==
  IF handler = "GET"
  THEN pc' = "done" /\ Emit(<<ErrorEvent(reason)>>) /\ UNCHANGED <<closed, response>>
  ELSE /\ pc' = "done"
       /\ response' = [status |-> 200, collections |-> groups, topProducts |-> top,
                       analysis |-> "null", productsFetched |-> 0, error |-> reason]
       /\ UNCHANGED <<events, closed>>

\* an early return that reports `reason`
ReturnError(reason, groups, top) ==
  IF handler = "GET"
  THEN pc' = "done" /\ Emit(<<ErrorEvent(reason)>>) /\ closed' = TRUE /\ UNCHANGED response
  ELSE /\ pc' = "done"
       /\ response' = [status |-> 200, collections |-> groups, topProducts |-> top,
                       analysis |-> "null", productsFetched |-> 0, error |-> reason]
       /\ UNCHANGED <<events, closed>>

\* ------------------------------------------------------------------------
\* The handlers
\* ------------------------------------------------------------------------
\* the timers of the run in progress that are still armed, as they will be
\* when a later run has replaced it
ArmedTimers ==
  {[es |-> run, timer |-> t, state |-> "armed"] :
     t \in {x \in {"initial", "overall"} :
              IF x = "initial" THEN initialTimeout = "armed" ELSE overallTimeout = "armed"}}

\* resetForNewRun(); openParseSSE(url): the page closes the stream
\* eventSourceRef.current refers to, if any, opens the event stream of the
\* new run and arms its two timers; the timers of the run before are not
\* cleared
openParseSSE ==
  /\ run' = run + 1
  /\ earlierSources' =
       IF run = 0 THEN earlierSources
       ELSE LET closing == [r \in 1..Len(earlierSources) |->
                              IF eventSourceRef = r THEN "closed" ELSE earlierSources[r]]
            IN  Append(closing, IF eventSourceRef = run THEN "closed" ELSE es)
  /\ earlierTimers' = earlierTimers \cup ArmedTimers
  /\ eventSourceRef' = run + 1
  /\ es' = "open"
  /\ initialTimeout' = "armed"
  /\ overallTimeout' = "armed"
  /\ elapsed' = 0
  /\ delivered' = 0
  /\ isLoading' = TRUE
  /\ clientError' = "none"

\* a request arrives
Request(h) ==
  /\ pc = "idle"
  /\ handler' = h
  /\ pc' = IF h = "parse-homepage" THEN "parse" ELSE "home"
  /\ events' = IF h = "GET" THEN <<[type |-> "start"]>> ELSE events
  /\ IF h = "GET" /\ profile \in {"client", "rerun"} THEN openParseSSE ELSE UNCHANGED clientVars
  /\ UNCHANGED <<profile, libVars, cancelled, closed, response, crawlVars, rankVars, pageVars, scoreVars,
                 calls, invocations, cacheVars>>

\* es.close(); eventSourceRef.current = null by the page: the connection goes
\* away and the stream of the handler, if it is still being served, is cancelled
CloseEventSource ==
  /\ es' = "closed"
  /\ eventSourceRef' = 0
  /\ cancelled' = (cancelled \/ pc \notin {"done", "aborted"})

\* the user clicks Cancel while the analysis is loading
cancelStreaming ==
  /\ es = "open"
  /\ CloseEventSource
  /\ isLoading' = FALSE
  /\ UNCHANGED <<initialTimeout, overallTimeout, elapsed, delivered, clientError, histVars>>
  /\ UNCHANGED <<ctlVars, pc, outVars, crawlVars, rankVars, pageVars, scoreVars,
                 calls, invocations, cacheVars>>

\* error.includes('blocking automated requests'): the messages of the
\* program that contain the phrase
IncludesBlockingPhrase(error) ==
  error \in {fetchHtml(403), fetchHtml(410), NotResponding}

\* clearTimeout
ClearTimeout(timer) == IF timer = "armed" THEN "cleared" ELSE timer

\* es.onmessage handles the next event of the stream
onmessage ==
  /\ es = "open"
  /\ delivered < Len(events)
  /\ LET data == events[delivered + 1]
     IN  /\ delivered' = delivered + 1
         /\ initialTimeout' = ClearTimeout(initialTimeout)
         /\ IF data.type \in {"complete", "error"}
            THEN /\ overallTimeout' = ClearTimeout(overallTimeout)
                 /\ clientError' = IF data.type = "error" THEN data.error ELSE clientError
                 /\ CloseEventSource
                 /\ isLoading' = FALSE
            ELSE UNCHANGED <<overallTimeout, clientError, es, eventSourceRef, cancelled, isLoading>>
  /\ UNCHANGED <<ctlVars, pc, outVars, crawlVars, rankVars, pageVars, scoreVars,
                 calls, invocations, cacheVars, elapsed, histVars>>

\* (variant: the callback only tests that some stream is referred to)
IsCurrent_Any(id) == eventSourceRef # 0
\* eventSourceRef.current === es, for the EventSource es of run id
IsCurrent(id) == eventSourceRef = id

\* (variant: the callback reports the error and leaves the stream open)
TimerCallback_NoClose(reason) ==
  IF IsCurrent(run)
  THEN clientError' = reason /\ isLoading' = FALSE /\ UNCHANGED <<es, eventSourceRef, cancelled>>
  ELSE UNCHANGED <<clientError, es, eventSourceRef, cancelled, isLoading>>
\* the callback of a timer of the run in progress that is due:
\* if (eventSourceRef.current === es) {...}
TimerCallback(reason) ==
  IF IsCurrent(run)
  THEN clientError' = reason /\ CloseEventSource /\ isLoading' = FALSE
  ELSE UNCHANGED <<clientError, es, eventSourceRef, cancelled, isLoading>>

\* 5 seconds have passed since the stream was opened
initialTimeoutDue ==
  /\ es # "none"
  /\ elapsed = 0
  /\ \A t \in earlierTimers : t.timer = "initial" => t.state = "fired"
  /\ elapsed' = 5
  /\ IF initialTimeout = "armed"
     THEN initialTimeout' = "fired" /\ TimerCallback(NotResponding)
     ELSE UNCHANGED <<initialTimeout, clientError, es, eventSourceRef, cancelled, isLoading>>
  /\ UNCHANGED <<ctlVars, pc, outVars, crawlVars, rankVars, pageVars, scoreVars,
                 calls, invocations, cacheVars, overallTimeout, delivered, histVars>>

\* 120 seconds have passed since the stream was opened
overallTimeoutDue ==
  /\ es # "none"
  /\ elapsed = 5
  /\ \A t \in earlierTimers : t.state = "fired"
  /\ elapsed' = 120
  /\ IF overallTimeout = "armed"
     THEN overallTimeout' = "fired" /\ TimerCallback(AnalysisTimeout)
     ELSE UNCHANGED <<overallTimeout, clientError, es, eventSourceRef, cancelled, isLoading>>
  /\ UNCHANGED <<ctlVars, pc, outVars, crawlVars, rankVars, pageVars, scoreVars,
                 calls, invocations, cacheVars, initialTimeout, delivered, histVars>>

\* a timer of an earlier run is due: its callback tests eventSourceRef.current
\* against the EventSource of its own run
earlierTimeoutDue ==
  \E t \in earlierTimers :
    /\ t.state = "armed"
    /\ t.timer = "overall" =>
         \A u \in earlierTimers : u.es = t.es /\ u.timer = "initial" => u.state = "fired"
    /\ earlierTimers' = (earlierTimers \ {t}) \cup {[t EXCEPT !.state = "fired"]}
    /\ IF IsCurrent(t.es)
       THEN /\ clientError' = IF t.timer = "initial" THEN NotResponding ELSE AnalysisTimeout
            /\ earlierSources' = [earlierSources EXCEPT ![t.es] = "closed"]
            /\ eventSourceRef' = 0
            /\ isLoading' = FALSE
       ELSE UNCHANGED <<clientError, earlierSources, eventSourceRef, isLoading>>
    /\ UNCHANGED <<es, initialTimeout, overallTimeout, elapsed, delivered, run, cancelled>>
    /\ UNCHANGED <<ctlVars, pc, outVars, crawlVars, rankVars, pageVars, scoreVars,
                   calls, invocations, cacheVars>>

\* the page starts another run while or after the run before (explored in
\* the profile "rerun", on sites whose runs are short): the request of the
\* new run is served from the start by the same server process; what the
\* handler of the abandoned request still does is not followed
NewRun ==
  /\ profile = "rerun" /\ handler = "GET"
  /\ run \in 1..(MaxRuns - 1)
  /\ openParseSSE
  /\ pc' = "home"
  /\ events' = <<[type |-> "start"]>>
  /\ cancelled' = FALSE /\ closed' = FALSE /\ response' = NoResponse
  /\ homeStatus' = -1
  /\ homeHtml' = <<>> /\ collections' = <<>> /\ colFetch' = <<>>
  /\ collectionGroups' = <<>> /\ productLinks' = <<>> /\ urlList' = <<>>
  /\ rawTopProducts' = <<>> /\ validatedTopProducts' = <<>> /\ formattedTopProducts' = <<>>
  /\ pageFetch' = <<>> /\ pageContents' = <<>> /\ productsWithImages' = <<>>
  /\ brandPos' = "" /\ shuffledCategories' = <<>> /\ results' = <<>>
  /\ completedCount' = 0 /\ executiveSummary' = ""
  /\ calls' = [c \in CallSites |-> IdleCall]
  /\ invocations' = {}
  /\ UNCHANGED <<ctlVars, cacheVars>>

\* 1) Homepage -> links, pick the collections, start fetching them
FetchHome ==
  /\ pc = "home"
  /\ \E o \in HomeOutcomes(profile) :
       /\ homeStatus' = o.status
       /\ IF o.status # 200
          THEN /\ Throw(fetchHtml(o.status))
               /\ UNCHANGED <<homeHtml, collections, colFetch, collectionGroups, productLinks, urlList>>
          ELSE LET picked == PickCollections(parseLinks(o.html, handler), <<>>)
               IN  /\ homeHtml' = o.html
                   /\ collections' = picked
                   /\ colFetch' = [i \in 1..Len(picked) |-> Pending]
                   /\ pc' = "collections"
                   /\ UNCHANGED <<outVars, collectionGroups, productLinks, urlList>>
  /\ UNCHANGED <<clientVars, ctlVars, cancelled, rankVars, pageVars, scoreVars, calls, invocations, cacheVars>>

\* 2) one collection page fetch settles
FetchCollection(i) ==
  /\ pc = "collections"
  /\ MaySettle(colFetch, i, handler)
  /\ \E o \in CollectionOutcomes(profile) :
       colFetch' = [colFetch EXCEPT ![i] =
         IF o.status # 200 THEN Rejected
         ELSE [status |-> "fulfilled", colHtml |-> o.html,
               settledAfter |-> Len(SelectSeq(colFetch, LAMBDA f : f.status # "pending")),
               value |-> [collection |-> collections[i],
                          products |-> PickProducts(parseLinks(o.html, handler))]]]
  /\ UNCHANGED <<clientVars, ctlVars, pc, cancelled, outVars, homeStatus, homeHtml, collections, collectionGroups,
                 productLinks, urlList, rankVars, pageVars, scoreVars, calls, invocations, cacheVars>>

\* (variant: the early return on an empty candidate list is missing)
NoCandidates_Never(links, h) == FALSE
\* if (productLinks.length === 0) { ... return }: absent from the earlier POST variant
NoCandidates(links, h) == links = <<>> /\ h # "POST_v1"
\* if (pageContents.length === 0) { ... return }: absent from the earlier POST variant
NoPages(pages, h) == pages = <<>> /\ h # "POST_v1"

\* flatten the product links; stop without candidates, else 3) ask for the
\* top products.  The earlier POST variant has no early return.
GatherCollections ==
  /\ pc = "collections"
  /\ AllSettled(colFetch)
  /\ LET groups == Fulfilled(colFetch)
         links == Flatten(Map(groups, LAMBDA g : g.products))
     IN  /\ collectionGroups' = groups
         /\ productLinks' = links
         /\ IF NoCandidates(links, handler)
            THEN /\ IF SinkThrows THEN Throw("enqueue") ELSE ReturnError(NoProductUrls, groups, <<>>)
                 /\ UNCHANGED <<urlList, calls>>
            ELSE /\ urlList' = Slice(Map(links, LAMBDA l : l.url), UrlListCap)
                 /\ calls' = [calls EXCEPT !["rank"] =
                      IF handler = "GET" THEN StartCallFor(handler) ELSE StartDirectCall]
                 /\ pc' = "rank"
                 /\ UNCHANGED outVars
  /\ UNCHANGED <<clientVars, ctlVars, cancelled, homeStatus, homeHtml, collections, colFetch, rankVars, pageVars,
                 scoreVars, invocations, cacheVars>>

\* the ranking call has returned: cap the answer at 10, validate the URLs
\* against the original list, send `initial`, 4) start the product fetches
RankDone ==
  /\ pc = "rank"
  /\ calls["rank"].status = "done"
  /\ LET call == calls["rank"]
         malformed == call.threw \/ (call.ok /\ call.val.kind = "notarray")
         raw == IF call.ok /\ call.val.kind = "list" THEN Slice(call.val.items, TopCap) ELSE <<>>
         originalUrls == {l.url : l \in Range(productLinks)}
         validated == IF handler = "POST_v1" THEN raw
                      ELSE SelectSeq(raw, LAMBDA product : product.url \in originalUrls)
     IN  IF malformed
         THEN Throw("TypeError") /\ UNCHANGED <<rankVars, pageFetch>>
         ELSE /\ rawTopProducts' = raw
              /\ validatedTopProducts' = validated
              /\ formattedTopProducts' = validated
              /\ IF SinkThrows
                 THEN Throw("enqueue") /\ UNCHANGED pageFetch
                 ELSE /\ pageFetch' = [i \in 1..Len(validated) |-> Pending]
                      /\ pc' = "products"
                      /\ IF handler = "GET"
                         THEN Emit(<<[type |-> "initial", collections |-> collectionGroups,
                                      topProducts |-> validated,
                                      stats |-> [collections |-> Len(collectionGroups),
                                                 productsFetched |-> 0]]>>)
                         ELSE UNCHANGED events
                      /\ UNCHANGED <<closed, response>>
  /\ UNCHANGED <<clientVars, ctlVars, cancelled, crawlVars, pageContents, productsWithImages, scoreVars,
                 calls, invocations, cacheVars>>

\* one product page fetch settles
FetchProduct(i) ==
  /\ pc = "products"
  /\ MaySettle(pageFetch, i, handler)
  /\ \E o \in ProductOutcomes(profile) :
       pageFetch' = [pageFetch EXCEPT ![i] =
         IF o.status # 200 THEN Rejected
         ELSE [status |-> "fulfilled",
               value |-> [url |-> validatedTopProducts[i].url, pageType |-> "product",
                          image |-> IF handler = "GET" THEN o.image ELSE "null"]]]
  /\ UNCHANGED <<clientVars, ctlVars, pc, cancelled, outVars, crawlVars, rankVars, pageContents,
                 productsWithImages, scoreVars, calls, invocations, cacheVars>>

\* pageContents.find(p => p.url === url)?.image || null
ImageOf(pages, url) ==
  IF \E i \in 1..Len(pages) : pages[i].url = url
  THEN pages[CHOOSE i \in 1..Len(pages) :
               pages[i].url = url /\ \A j \in 1..(i - 1) : pages[j].url # url].image
  ELSE "null"

\* (variant: the list is built from the pages that were fetched)
WithImages_FromPages(products, pages) ==
  Map(pages, LAMBDA page :
        LET product == CHOOSE p \in Range(products) : p.url = page.url
        IN  [url |-> product.url, title |-> product.title, reason |-> product.reason,
             image |-> page.image])
\* formattedTopProducts.map(product => ({...product, image: ... || null}))
WithImages(products, pages) ==
  Map(products, LAMBDA product :
        [url |-> product.url, title |-> product.title, reason |-> product.reason,
         image |-> ImageOf(pages, product.url)])

\* the product fetches have settled: stop without a page, else send
\* `products_fetched` and 5) call inferBrandPositioning.  The earlier POST
\* variant has no early return.
GatherProducts ==
  /\ pc = "products"
  /\ AllSettled(pageFetch)
  /\ LET pages == Fulfilled(pageFetch)
     IN  /\ pageContents' = pages
         /\ productsWithImages' =
              IF handler = "GET"
              THEN WithImages(formattedTopProducts, pages)
              ELSE productsWithImages
         /\ IF SinkThrows
            THEN Throw("enqueue") /\ UNCHANGED <<calls, invocations>>
            ELSE IF NoPages(pages, handler)
            THEN /\ ReturnError(NoProductPages, collectionGroups, formattedTopProducts)
                 /\ UNCHANGED <<calls, invocations>>
            ELSE /\ IF handler = "GET"
                    THEN Emit(<<[type |-> "products_fetched", count |-> Len(pages)]>>)
                    ELSE UNCHANGED events
                 /\ invocations' = invocations \cup {<<"inferBrandPositioning", Len(pages)>>}
                 /\ calls' = [calls EXCEPT !["positioning"] = StartCallFor(handler)]
                 /\ pc' = "positioning"
                 /\ UNCHANGED <<closed, response>>
  /\ UNCHANGED <<clientVars, ctlVars, cancelled, crawlVars, rankVars, pageFetch, scoreVars, cacheVars>>

\* ------------------------------------------------------------------------
\* The link classifier of parse-homepage
\* ------------------------------------------------------------------------
AnchorCap == 500
\* (variant: the list without the keyword 'products')
categoryKeywords_NoProducts ==
  {"collection", "category", "shop", "browse", "catalog", "men", "women", "kids",
   "baby", "home", "kitchen", "bedroom", "clothing", "shoes", "accessories", "electronics",
   "books", "outdoor", "sports", "beauty", "health", "jewelry", "watches", "bags", "furniture",
   "decor", "garden", "tools", "automotive"}
categoryKeywords ==
  {"collection", "category", "shop", "browse", "products", "catalog", "men", "women", "kids",
   "baby", "home", "kitchen", "bedroom", "clothing", "shoes", "accessories", "electronics",
   "books", "outdoor", "sports", "beauty", "health", "jewelry", "watches", "bags", "furniture",
   "decor", "garden", "tools", "automotive"}
categoryUrlPatterns ==
  {"collections", "categories", "category", "shop", "browse", "men", "women", "kids", "baby",
   "home", "kitchen", "clothing", "shoes", "accessories", "electronics", "books"}
productUrlPatterns == {"products", "product", "item", "items", "p"}

\* the category keywords that occur in a lower-cased path segment or anchor
\* text, for the segments and texts of the explored pages
KeywordsIn(lower) ==
  CASE lower = "collections" -> {"collection"}
    [] lower = "category" -> {"category"}
    [] lower = "shop" -> {"shop"}
    [] lower = "browse" -> {"browse"}
    [] lower = "products" -> {"products"}
    [] lower = "shoes" -> {"shoes"}
    [] lower = "shoes again" -> {"shoes"}
    [] lower = "kids toy" -> {"kids"}
    [] OTHER -> {}

\* categoryKeywords.some(k => lowerText.includes(k) || lowerHref.includes(k))
HasCategoryKeyword(link) ==
  \/ KeywordsIn(ToLowerCase(link.text)) \cap categoryKeywords # {}
  \/ \E i \in 1..Len(link.url.segs) :
       KeywordsIn(ToLowerCase(link.url.segs[i])) \cap categoryKeywords # {}

\* (variant: the product path is tested before the category tests)
Classify_ProductFirst(link) ==
  IF IncludesPattern(link.url, productUrlPatterns) THEN "likely-product"
  ELSE IF HasCategoryKeyword(link) \/ IncludesPattern(link.url, categoryUrlPatterns)
  THEN "likely-category"
  ELSE "other"
\* the class the forEach callback gives an accepted link
Classify(link) ==
  IF HasCategoryKeyword(link) \/ IncludesPattern(link.url, categoryUrlPatterns)
  THEN "likely-category"
  ELSE IF IncludesPattern(link.url, productUrlPatterns) THEN "likely-product"
  ELSE "other"

categoryPriority(category) ==
  CASE category = "likely-category" -> 0
    [] category = "likely-product" -> 1
    [] category = "other" -> 2

\* position of an anchor text in the order of localeCompare
LocaleRank(text) ==
  CASE text = "About" -> 1
    [] text = "Both" -> 2
    [] text = "Item" -> 3
    [] text = "Kids toy" -> 4
    [] text = "Mail" -> 5
    [] text = "More" -> 6
    [] text = "Shoes" -> 7
    [] text = "Shoes again" -> 8
    [] text = "Shop" -> 9
    [] text = "Upper" -> 10
    [] text = "Widget" -> 11

\* links.sort by category priority, then by text; the sort is stable
SortLinks(links) ==
  LET before(i, j) ==
        \/ categoryPriority(links[i].category) < categoryPriority(links[j].category)
        \/ /\ links[i].category = links[j].category
           /\ \/ LocaleRank(links[i].text) < LocaleRank(links[j].text)
              \/ LocaleRank(links[i].text) = LocaleRank(links[j].text) /\ i < j
      position(i) == 1 + Cardinality({j \in 1..Len(links) : before(j, i)})
  IN  [n \in 1..Len(links) |-> links[CHOOSE i \in 1..Len(links) : position(i) = n]]

\* the accepted anchors of the first 500, each with its class
ExtractLinks(html) ==
  LET accepted == SelectSeq(Slice(html, AnchorCap),
                            LAMBDA a : a.text # "" /\ a.url.scheme = "https")
  IN  [i \in 1..Len(accepted) |->
         [url |-> accepted[i].url, text |-> accepted[i].text, category |-> Classify(accepted[i])]]

CountOf(links, category) == Len(SelectSeq(links, LAMBDA l : l.category = category))

\* the homepages explored with the classifier
ParseOutcomes ==
  {[status |-> 200, html |-> h] : h \in {HomeNone, HomeMany, HomeMixed, PageSmall}}
  \cup {[status |-> 404, html |-> <<>>]}

\* POST of parse-homepage: fetch, classify, sort, answer
parseHomepage ==
  /\ pc = "parse"
  /\ pc' = "done"
  /\ \E o \in ParseOutcomes :
       IF o.status # 200
       THEN response' = [status |-> 500, error |-> "Failed to fetch"]
       ELSE LET sortedLinks == SortLinks(ExtractLinks(o.html))
            IN  response' =
                  [status |-> 200, links |-> sortedLinks,
                   stats |-> [total |-> Len(sortedLinks),
                              categories |-> CountOf(sortedLinks, "likely-category"),
                              products |-> CountOf(sortedLinks, "likely-product"),
                              other |-> CountOf(sortedLinks, "other")]]
  /\ UNCHANGED <<clientVars, ctlVars, cancelled, events, closed, crawlVars, rankVars, pageVars,
                 scoreVars, calls, invocations, cacheVars>>

\* ------------------------------------------------------------------------
\* inferBrandPositioning, scoreCategory, analyzeConsolidated(Streaming)
\* ------------------------------------------------------------------------
\* (variant: the positioning field is returned as it is)
inferBrandPositioning_Raw(call) ==
  IF call.ok /\ call.val.kind = "positioning" /\ call.val.has
  THEN "positioning statement" ELSE "undefined"
\* return result?.positioning || 'Unable to infer brand positioning'
inferBrandPositioning(call) ==
  IF call.ok /\ call.val.kind = "positioning" /\ call.val.has
  THEN "positioning statement" ELSE PositioningFailed

\* { score: result.score || 0, summary: result.summary || `Unable to analyze ${title}` }
scoreCategory(k, call) ==
  [score |-> IF call.ok /\ call.val.kind = "score" /\ call.val.hasScore /\ call.val.score # 0
             THEN call.val.score ELSE 0,
   summary |-> IF call.ok /\ call.val.kind = "score" /\ call.val.hasSummary
               THEN <<"oracle", "summary">> ELSE UnableToAnalyze(CategoryTitle(k))]

\* the orders [...categories].sort(() => Math.random() - 0.5) can produce
\* (variant: a shuffle that may repeat one category and lose another)
Shuffles_Lossy == [1..3 -> Range(CategoryKeys)]
\* [...categories].sort(() => Math.random() - 0.5): some permutation
Shuffles ==
  {o \in [1..3 -> Range(CategoryKeys)] : Range(o) = Range(CategoryKeys)}

StreamingName == IF handler = "GET" THEN "analyzeConsolidatedStreaming" ELSE "analyzeConsolidated"

\* inferBrandPositioning has returned; analyzeConsolidated(Streaming) shuffles
\* the categories, announces the order and starts the three scoring calls
analyzeConsolidatedStreaming ==
  /\ pc = "positioning"
  /\ calls["positioning"].status = "done"
  /\ brandPos' = inferBrandPositioning(calls["positioning"])
  /\ invocations' = invocations \cup {<<StreamingName, Len(pageContents)>>}
  /\ \E order \in Shuffles :
       /\ shuffledCategories' = order
       /\ IF SinkThrows
          THEN Throw("enqueue") /\ UNCHANGED <<calls, results, completedCount>>
          ELSE /\ IF handler = "GET"
                  THEN Emit(<<[type |-> "randomization", order |-> order],
                              [type |-> "progress", step |-> 1]>>)
                  ELSE UNCHANGED events
               /\ results' = <<>>
               /\ completedCount' = 0
               /\ calls' = [c \in CallSites |->
                              IF c \in Range(order)
                              THEN StartCallFor(handler) ELSE calls[c]]
               /\ pc' = "scoring"
               /\ UNCHANGED <<closed, response>>
  /\ UNCHANGED <<clientVars, ctlVars, cancelled, crawlVars, rankVars, pageVars, executiveSummary, cacheVars>>

HasResult(k) == k \in DOMAIN results
SetResult(k, r) == [x \in DOMAIN results \cup {k} |-> IF x = k THEN r ELSE results[x]]

\* the continuation of one category after its scoreCategory call returned
CategoryDone(k) ==
  /\ pc = "scoring"
  /\ calls[k].status = "done"
  /\ ~HasResult(k)
  /\ LET result == scoreCategory(k, calls[k])
         fallbackResult == [score |-> 0, summary |-> UnableToAnalyze(CategoryTitle(k))]
     IN  IF handler # "GET"
         THEN /\ results' = SetResult(k, result)
              /\ UNCHANGED <<completedCount, events>>
         ELSE IF ~SinkThrows
         THEN /\ results' = SetResult(k, result)
              /\ completedCount' = completedCount + 1
              /\ Emit(<<[type |-> "category_complete", category |-> CategoryTitle(k),
                         categoryKey |-> k, score |-> result.score, summary |-> result.summary,
                         done |-> completedCount + 1]>>)
         ELSE \* onUpdate threw inside the try block: the catch block overwrites
              \* the result, counts again and its own onUpdate throws as well
              /\ results' = SetResult(k, fallbackResult)
              /\ completedCount' = completedCount + 2
              /\ UNCHANGED events
  /\ UNCHANGED <<clientVars, ctlVars, pc, cancelled, closed, response, crawlVars, rankVars, pageVars,
                 brandPos, shuffledCategories, executiveSummary, calls, invocations, cacheVars>>

\* (variant: waits for the first category only, as Promise.race would)
CategoriesSettled_Any(done) == \E k \in Range(CategoryKeys) : k \in done
\* await Promise.allSettled(categoryPromises)
CategoriesSettled(done) == \A k \in Range(CategoryKeys) : k \in done

\* Promise.allSettled(categoryPromises) has resolved: announce and start the
\* executive summary call
GenerateSummary ==
  /\ pc = "scoring"
  /\ CategoriesSettled(DOMAIN results)
  /\ IF SinkThrows
     THEN Throw("enqueue") /\ UNCHANGED calls
     ELSE /\ IF handler = "GET"
             THEN Emit(<<[type |-> "progress", step |-> 4]>>)
             ELSE UNCHANGED events
          /\ calls' = [calls EXCEPT !["summary"] = StartCallFor(handler)]
          /\ pc' = "summary"
          /\ UNCHANGED <<closed, response>>
  /\ UNCHANGED <<clientVars, ctlVars, cancelled, crawlVars, rankVars, pageVars, scoreVars, invocations, cacheVars>>

\* (variant: the final analysis is built from the placeholders)
ResultOr_Placeholder(k, placeholder) == [score |-> 0, summary |-> UnableToAnalyze(placeholder)]
\* results[k] || { score: 0, summary: 'Unable to analyze ...' }
ResultOr(k, placeholder) ==
  IF HasResult(k) THEN results[k] ELSE [score |-> 0, summary |-> UnableToAnalyze(placeholder)]

\* (variant: the field of the answer is taken without a default)
ExecutiveSummaryOf_Raw(call) ==
  IF call.ok /\ call.val.kind = "summary" /\ call.val.has THEN "executive summary" ELSE "undefined"
\* let executiveSummary = 'Unable to generate ...'; replaced by the field of
\* the answer when the answer has one
ExecutiveSummaryOf(call) ==
  IF call.ok /\ call.val.kind = "summary" /\ call.val.has THEN "executive summary" ELSE SummaryFailed

\* the executive summary call has returned: send `complete` and close, or
\* answer the POST request
Complete ==
  /\ pc = "summary"
  /\ calls["summary"].status = "done"
  /\ LET call == calls["summary"]
         summary == ExecutiveSummaryOf(call)
         finalAnalysis ==
           [executiveSummary |-> summary,
            inferredBrandPositioning |-> brandPos,
            brandAlignment |-> ResultOr("brandAlignment", "brand alignment"),
            conversionEffectiveness |-> ResultOr("conversionEffectiveness", "conversion effectiveness"),
            seoAiBestPractices |-> ResultOr("seoAiBestPractices", "SEO and AI discoverability"),
            problematicContent |-> <<>>]
     IN  /\ executiveSummary' = summary
         /\ IF SinkThrows
            THEN Throw("enqueue")
            ELSE /\ pc' = "done"
                 /\ IF handler = "GET"
                    THEN /\ Emit(<<[type |-> "complete", analysis |-> finalAnalysis,
                                    topProducts |-> productsWithImages]>>)
                         /\ closed' = TRUE
                         /\ UNCHANGED response
                    ELSE /\ response' = [status |-> 200, collections |-> collectionGroups,
                                         topProducts |-> formattedTopProducts,
                                         analysis |-> finalAnalysis,
                                         productsFetched |-> Len(pageContents), error |-> ""]
                         /\ UNCHANGED <<events, closed>>
  /\ UNCHANGED <<clientVars, ctlVars, cancelled, crawlVars, rankVars, pageVars, brandPos, shuffledCategories,
                 results, completedCount, calls, invocations, cacheVars>>

\* ------------------------------------------------------------------------
\* Library functions explored on their own
\* ------------------------------------------------------------------------
SeqsUpTo(S, n) == UNION {[1..k -> S] : k \in 0..n}
\* the tokens AI_MODEL is made of
EnvTokens == {" ", ",", ":", "openai", "gpt-4o-mini"}
EnvValues == SeqsUpTo(EnvTokens, MaxEnvLen)

\* a call of getOpenAIModelCandidates()
ReadCandidates ==
  /\ pc = "idle"
  /\ candidates' = Models(AI_MODEL)
  /\ pc' = "returned"
  /\ UNCHANGED <<profile, handler, AI_MODEL, contentLengths, prompt, cancelled, outVars, crawlVars,
                 rankVars, pageVars, scoreVars, calls, invocations, cacheVars, clientVars>>

\* lengths of page.content and of source.content
PageLengths == {0, 1500, 2000, 9000}
SourceLengths == {0, 500, 5000}
NoPrompt == [website |-> <<>>, digital |-> <<>>]
\* the length of `PRODUCT PAGE - ${page.url}:\n` and of
\* `WEBSITE - ${source.source}:\n` for a URL of 24 characters
PageHeader == 15 + 24 + 2
SourceHeader == 10 + 24 + 2
\* the length of the separator '\n\n---\n\n'
Separator == 7
WebsiteCap == 8000
DigitalCap == 4000
RECURSIVE StartOf(_, _, _)
\* the offset at which the i-th content starts in the joined text
StartOf(lengths, header, i) ==
  IF i = 1 THEN header
  ELSE StartOf(lengths, header, i - 1) + lengths[i - 1] + Separator + header
\* the number of characters of the i-th content in .join(...).slice(0, cap)
Kept(lengths, header, cap, i) ==
  LET start == Min(StartOf(lengths, header, i), cap)
      end == Min(StartOf(lengths, header, i) + lengths[i], cap)
  IN  end - start
\* inferBrandPositioning builds websiteContent and digitalContent
BuildPrompt ==
  /\ pc = "idle"
  /\ prompt' = [website |-> [i \in 1..Len(contentLengths.website) |->
                              Kept(contentLengths.website, PageHeader, WebsiteCap, i)],
                digital |-> [i \in 1..Len(contentLengths.digital) |->
                              Kept(contentLengths.digital, SourceHeader, DigitalCap, i)]]
  /\ pc' = "returned"
  /\ UNCHANGED <<profile, handler, AI_MODEL, candidates, contentLengths, cancelled, outVars, crawlVars,
                 rankVars, pageVars, scoreVars, calls, invocations, cacheVars, clientVars>>

\* ------------------------------------------------------------------------
\* Specification
\* ------------------------------------------------------------------------
\* A fresh server process before its first request: no model is cached and
\* none has failed.
Fresh ==
  /\ handler = "none"
  /\ pc = "idle"
  /\ cancelled = FALSE
  /\ events = <<>>
  /\ closed = FALSE
  /\ response = NoResponse
  /\ homeStatus = -1
  /\ homeHtml = <<>> /\ collections = <<>> /\ colFetch = <<>>
  /\ collectionGroups = <<>> /\ productLinks = <<>> /\ urlList = <<>>
  /\ rawTopProducts = <<>> /\ validatedTopProducts = <<>> /\ formattedTopProducts = <<>>
  /\ pageFetch = <<>> /\ pageContents = <<>> /\ productsWithImages = <<>>
  /\ brandPos = "" /\ shuffledCategories = <<>> /\ results = <<>>
  /\ completedCount = 0 /\ executiveSummary = ""
  /\ calls = [c \in CallSites |-> IdleCall]
  /\ invocations = {}
  /\ cachedPreferredModel = NoModel
  /\ failedModels = {}
  /\ es = "none" /\ initialTimeout = "unset" /\ overallTimeout = "unset"
  /\ elapsed = 0 /\ delivered = 0 /\ isLoading = FALSE /\ clientError = "none"
  /\ run = 0 /\ eventSourceRef = 0 /\ earlierSources = <<>> /\ earlierTimers = {}
  /\ candidates = <<>>
  /\ prompt = NoPrompt

Init ==
  /\ profile \in Profiles
  /\ Fresh
  /\ AI_MODEL = DeployedEnv
  /\ contentLengths = NoPrompt

\* getOpenAIModelCandidates on its own: any value of AI_MODEL
EnvInit ==
  /\ profile = "library"
  /\ Fresh
  /\ AI_MODEL \in EnvValues
  /\ contentLengths = NoPrompt

\* the prompt of inferBrandPositioning on its own: any lengths of the contents
PromptInit ==
  /\ profile = "library"
  /\ Fresh
  /\ AI_MODEL = DeployedEnv
  /\ contentLengths \in [website : SeqsUpTo(PageLengths, MaxPages) \ {<<>>},
                          digital : SeqsUpTo(SourceLengths, MaxSources)]

Next ==
  \/ \E h \in Handlers : Request(h)
  \/ cancelStreaming
  \/ onmessage
  \/ initialTimeoutDue
  \/ overallTimeoutDue
  \/ earlierTimeoutDue
  \/ NewRun
  \/ parseHomepage
  \/ FetchHome
  \/ \E i \in 1..MaxCollections : FetchCollection(i)
  \/ GatherCollections
  \/ \E c \in CallSites : tryOpenAIChatJson(c)
  \/ RankDone
  \/ \E i \in 1..TopCap : FetchProduct(i)
  \/ GatherProducts
  \/ analyzeConsolidatedStreaming
  \/ \E k \in Range(CategoryKeys) : CategoryDone(k)
  \/ GenerateSummary
  \/ Complete

Spec == Init /\ [][Next]_vars

EnvNext == ReadCandidates
EnvSpec == EnvInit /\ [][EnvNext]_vars

PromptNext == BuildPrompt
PromptSpec == PromptInit /\ [][PromptNext]_vars

\* every step of a request is a continuation the event loop runs once its
\* await has settled; fetches and generation requests settle
FairSpec == Spec /\ WF_vars(Next)

\* ------------------------------------------------------------------------
\* Properties
\* ------------------------------------------------------------------------
EventsOfType(ts) == {i \in 1..Len(events) : events[i].type \in ts}
Terminal == EventsOfType({"complete", "error"})
LastEvent == events[Len(events)]
Streaming == handler = "GET"
\* the handler has got past the ranking step and sent (or, POST, computed) the selection
Ranked == pc \in {"products", "positioning", "scoring", "summary", "done"} /\ calls["rank"].status = "done"
CandidateUrls == Map(productLinks, LAMBDA l : l.url)
SelectedUrls == Map(validatedTopProducts, LAMBDA p : p.url)
CategoryEvents(k) ==
  {i \in EventsOfType({"category_complete", "category_error"}) : events[i].categoryKey = k}

\* C1: every run of the streaming handler that the client does not cancel
\* emits exactly one terminal event (`complete` or `error`), as its last
\* event, closes the stream with it, and every such run gets there.
C1_OneTerminalEvent ==
  /\ [](Streaming /\ ~cancelled =>
          /\ Cardinality(Terminal) <= 1
          /\ closed <=> Terminal # {}
          /\ Terminal # {} => Terminal = {Len(events)}
          /\ pc = "done" <=> closed)
  /\ (Streaming ~> (closed \/ cancelled))
C1_Witness ==
  /\ Streaming /\ closed /\ LastEvent.type = "error"
  /\ calls["rank"].status = "done" /\ LastEvent.error = "TypeError"

\* C2: every URL of the validated selection is one of the URLs that were
\* sent to the ranking oracle (the first 100 candidates).
C2_SelectionWasSent ==
  handler \in {"GET", "POST"} =>
    /\ Range(SelectedUrls) \subseteq Range(urlList)
    /\ \A i \in EventsOfType({"initial"}) :
         \A j \in 1..Len(events[i].topProducts) : events[i].topProducts[j].url \in Range(urlList)
    /\ \A i \in 1..Len(pageFetch) :
         pageFetch[i].status = "fulfilled" => pageFetch[i].value.url \in Range(urlList)

\* C3: with a non-empty candidate list the validated selection is non-empty,
\* also when the ranking call returned null or validation discarded everything.
C3_NonEmptyFallback ==
  Streaming /\ Ranked /\ productLinks # <<>> => validatedTopProducts # <<>>

\* C4: when the ranking oracle fails (no usable model, malformed output) the
\* selection is the first min(10, n) candidates in order, each with a
\* fallback reason.
C4_FirstTenOnFailure ==
  Streaming /\ Ranked /\ (~calls["rank"].ok \/ calls["rank"].val.kind # "list") =>
    /\ SelectedUrls = Slice(CandidateUrls, TopCap)
    /\ \A i \in 1..Len(validatedTopProducts) : validatedTopProducts[i].reason = "fallback"

\* C5: when every model fails for every oracle call of a run while the
\* homepage, a category page with product links and the product pages are
\* fetchable, the run ends with `complete` carrying the failure strings.
TotalOutage == \A c \in CallSites : ~calls[c].ok
C5_OutageStillCompletes ==
  Streaming /\ ~cancelled /\ pc = "done" /\ TotalOutage /\ productLinks # <<>>
    /\ (\A i \in 1..Len(pageFetch) : pageFetch[i].status = "fulfilled") =>
      /\ LastEvent.type = "complete"
      /\ LastEvent.analysis.inferredBrandPositioning = PositioningFailed
      /\ LastEvent.analysis.executiveSummary = SummaryFailed
      /\ LastEvent.analysis.brandAlignment.score = 0
      /\ LastEvent.analysis.conversionEffectiveness.score = 0
      /\ LastEvent.analysis.seoAiBestPractices.score = 0

\* C6: with an empty candidate list (streaming handler and current POST) the
\* run reports 'No product URLs found on this website' and halts, no oracle
\* call was issued, and the ranker is never invoked with an empty list.
GatheredEmpty ==
  pc \notin {"idle", "home", "collections", "aborted"} /\ homeHtml # <<>> /\ productLinks = <<>>
C6_ZeroCandidates ==
  handler \in {"GET", "POST"} =>
    /\ GatheredEmpty =>
         /\ pc = "done"
         /\ \A c \in CallSites : calls[c].status = "idle"
         /\ Streaming => events = <<[type |-> "start"], ErrorEvent(NoProductUrls)>> /\ closed
         /\ handler = "POST" => response.status = 200 /\ response.error = NoProductUrls
    /\ calls["rank"].status # "idle" => productLinks # <<>> /\ urlList # <<>>
C6_Witness ==
  Streaming /\ GatheredEmpty /\ collections # <<>> /\ closed

\* C7: inferBrandPositioning and analyzeConsolidated(Streaming) are only
\* invoked with a non-empty pageContents; a run without a fetched product
\* page ends with the 'No product pages ...' error and issues no positioning
\* or scoring call.
C7_ScoringNeverEmpty ==
  /\ \A inv \in invocations : inv[2] > 0
  /\ pc \in {"positioning", "scoring", "summary"} => pageContents # <<>>

\* C8: of the N selected product URLs all N fetches settle, pageContents
\* holds one entry per successful fetch (N-K), `products_fetched` reports
\* N-K, and positioning and scoring start iff N-K > 0.
FetchedCount == Cardinality({i \in 1..Len(pageFetch) : pageFetch[i].status = "fulfilled"})
FailedCount == Cardinality({i \in 1..Len(pageFetch) : pageFetch[i].status = "rejected"})
ProductsGathered ==
  Streaming /\ EventsOfType({"initial"}) # {}
    /\ pc \in {"positioning", "scoring", "summary", "done"}
C8_PartialFailure ==
  ProductsGathered =>
    /\ Len(pageFetch) = Len(validatedTopProducts)
    /\ FetchedCount + FailedCount = Len(validatedTopProducts)
    /\ Len(pageContents) = Len(validatedTopProducts) - FailedCount
    /\ \A i \in 1..Len(pageFetch) :
         pageFetch[i].status = "fulfilled" =>
           \E j \in 1..Len(pageContents) : pageContents[j] = pageFetch[i].value
    /\ \A i \in EventsOfType({"products_fetched"}) :
         events[i].count = Len(validatedTopProducts) - FailedCount
    /\ (Len(pageContents) > 0) <=> (EventsOfType({"products_fetched"}) # {})
    /\ (Len(pageContents) > 0) <=> (calls["positioning"].status # "idle")
    /\ Len(pageContents) = 0 =>
         /\ LastEvent = ErrorEvent(NoProductPages)
         /\ \A k \in Range(CategoryKeys) : calls[k].status = "idle"
C8_Witness ==
  ProductsGathered /\ FailedCount > 0 /\ FetchedCount > 0 /\ pc = "scoring"

\* C9: every dimension gets at most one category_complete/category_error
\* event per run, and all three have theirs before `complete`.
C9_OneEventPerDimension ==
  Streaming =>
    /\ \A k \in Range(CategoryKeys) : Cardinality(CategoryEvents(k)) <= 1
    /\ \A c \in EventsOfType({"complete"}) :
         \A k \in Range(CategoryKeys) : \E i \in CategoryEvents(k) : i < c
C9_Witness ==
  /\ Streaming /\ EventsOfType({"complete"}) # {}
  /\ \A k \in Range(CategoryKeys) : Cardinality(CategoryEvents(k)) = 1

\* C10: a dimension whose oracle call failed is reported by a category_error
\* event, not by category_complete, with the score-0 placeholder.
C10_FailedDimensionReportsError ==
  Streaming /\ ~cancelled =>
    \A k \in Range(CategoryKeys) :
      HasResult(k) /\ ~calls[k].ok =>
        /\ results[k] = [score |-> 0, summary |-> UnableToAnalyze(CategoryTitle(k))]
        /\ \A i \in CategoryEvents(k) : events[i].type = "category_error"

\* the CategoryScore values that have reached the output: the scores of the
\* category_complete events, of the analysis of `complete` and of the
\* analysis in the POST response, each with the dimension it belongs to
AnalysisScores(analysis) ==
  {<<k, analysis[k]>> : k \in Range(CategoryKeys)}
OutputScores ==
  {<<events[i].categoryKey, [score |-> events[i].score, summary |-> events[i].summary]>> :
      i \in EventsOfType({"category_complete"})}
  \cup UNION {AnalysisScores(events[i].analysis) : i \in EventsOfType({"complete"})}
  \cup (IF handler \in {"POST", "POST_v1"} /\ response.status = 200 /\ response.error = "" THEN AnalysisScores(response.analysis) ELSE {})

\* C11: every score in the output is an integer in 1..100, or is 0, and 0
\* appears only when the oracle call of that dimension failed entirely.
C11_ScoreRange ==
  ~cancelled =>
    \A o \in OutputScores :
      \/ o[2].score \in 1..100
      \/ o[2].score = 0 /\ ~calls[o[1]].ok

\* C12: in every CategoryScore produced by scoreCategory the score is 0 if
\* and only if the summary is the 'Unable to analyze <dimension>' placeholder.
C12_SentinelPairing ==
  \A k \in Range(CategoryKeys) :
    calls[k].status = "done" =>
      (scoreCategory(k, calls[k]).score = 0
         <=> scoreCategory(k, calls[k]).summary = UnableToAnalyze(CategoryTitle(k)))

\* C13: the type of every event the streaming handler emits is one of start,
\* initial, products_fetched, progress, category_complete, category_error,
\* complete, error.
ProgressEventTypes ==
  {"start", "initial", "products_fetched", "progress", "category_complete",
   "category_error", "complete", "error"}
C13_EventVocabulary ==
  Streaming => \A i \in 1..Len(events) : events[i].type \in ProgressEventTypes

\* C14: a run that ends with `complete` has exactly one start, one initial
\* and one products_fetched event, in that order and all before the first
\* dimension event; start is the first event of every run and complete the
\* last one.
TheEvent(t) == CHOOSE i \in EventsOfType({t}) : TRUE
C14_StageOrder ==
  Streaming =>
    /\ events # <<>> /\ events[1].type = "start"
    /\ \A c \in EventsOfType({"complete"}) :
         /\ c = Len(events)
         /\ \A t \in {"start", "initial", "products_fetched"} : Cardinality(EventsOfType({t})) = 1
         /\ TheEvent("start") < TheEvent("initial")
         /\ TheEvent("initial") < TheEvent("products_fetched")
         /\ \A i \in EventsOfType({"category_complete", "category_error"}) :
              TheEvent("products_fetched") < i /\ i < c
C14_Witness ==
  /\ Streaming /\ pc = "done" /\ LastEvent.type = "complete"
  /\ EventsOfType({"category_complete"}) # {}
  /\ Len(events) > TheEvent("products_fetched")

\* the tryOpenAIChatJson calls that have been made so far
TryCalls == {c \in CallSites : calls[c].status # "idle" /\ ~calls[c].direct}
\* call c is entered in this step and computes its list of models
CallStarts(c) == calls[c].status = "idle" /\ calls'[c].status # "idle" /\ calls'[c].cached
\* call c returns a result in this step
CallSucceeds(c) == calls[c].cached /\ ~calls[c].ok /\ calls'[c].ok

\* C15: tryOpenAIChatJson never throws to its caller; when every model it
\* tries fails it returns {result: null, error}, and the failure of a model
\* is followed by the attempt on the next model of the same call.
C15_ExhaustionIsAValue ==
  \A c \in TryCalls :
    LET call == calls[c]
    IN  /\ ~call.threw
        /\ call.status = "running" =>
             call.idx \in 1..Len(call.models) /\ call.tried = SubSeq(call.models, 1, call.idx - 1)
        /\ call.status = "done" /\ ~call.ok =>
             /\ call.tried = call.models
             /\ Returned(call) = [result |-> "null", error |-> "All models failed"]
C15_Witness ==
  /\ pc = "scoring"
  /\ "positioning" \in TryCalls /\ ~calls["positioning"].ok
  /\ calls["positioning"].tried = ModelCandidates

\* C16: whatever the earlier calls of the process did, a call returns null
\* only if no configured model succeeds when called now, i.e. only after it
\* has asked every configured model and seen it fail.
C16_CachesNeverChangeOutcome ==
  \A c \in TryCalls :
    calls[c].status = "done" /\ ~calls[c].ok =>
      Range(getOpenAIModelCandidates) \subseteq Range(calls[c].tried)

\* C17: a call that starts after a model has failed does not ask that model.
C17_NegativeCaching ==
  [][\A c \in CallSites :
       CallStarts(c) => Range(calls'[c].models) \cap failedModels = {}]_vars

\* C18: a call that starts after a call succeeded with model M tries M
\* first, M being the model of the most recent success, and no model occurs
\* twice in the list of the call.
C18_LastKnownGood ==
  [][/\ \A c \in CallSites :
          CallStarts(c) /\ cachedPreferredModel # NoModel =>
            LET models == calls'[c].models
            IN  /\ models # <<>> /\ models[1] = cachedPreferredModel
                /\ \A i, j \in 1..Len(models) : models[i] = models[j] => i = j
     /\ \A c \in CallSites :
          CallSucceeds(c) => cachedPreferredModel' = calls'[c].modelUsed
     /\ cachedPreferredModel' # cachedPreferredModel =>
          \E c \in CallSites : CallSucceeds(c) /\ calls'[c].modelUsed = cachedPreferredModel'
    ]_vars
C18_Witness ==
  /\ cachedPreferredModel = "gpt-4o-mini"
  /\ calls["summary"].cached /\ calls["summary"].status = "running"
  /\ calls["summary"].models[1] = "gpt-4o-mini"
  /\ calls["positioning"].modelUsed = "gpt-4o-mini"

\* C19: a call asks the models of its list in list order, one at a time; it
\* returns the answer of the first model that succeeds, with modelUsed equal
\* to that model, and asks no model after it.
C19_FallbackOrder ==
  /\ [](\A c \in TryCalls :
          LET call == calls[c]
              n == Len(call.tried)
          IN  /\ n <= Len(call.models) /\ call.tried = SubSeq(call.models, 1, n)
              /\ call.status = "running" => ~call.ok /\ n = call.idx - 1
              /\ call.ok =>
                   /\ call.status = "done" /\ n > 0
                   /\ Returned(call) = [result |-> call.val, modelUsed |-> call.tried[n]]
                   /\ call.val # NoAnswer)
  /\ [][run' = run =>
          \A c \in CallSites : calls[c].status = "done" => calls'[c] = calls[c]]_vars
C19_Witness ==
  /\ "brandAlignment" \in TryCalls /\ calls["brandAlignment"].ok
  /\ calls["brandAlignment"].tried = <<"gpt-4o", "gpt-4o-mini">>
  /\ calls["brandAlignment"].modelUsed = "gpt-4o-mini"

\* C20: when the homepage fetch is still unanswered 5 seconds after the
\* analysis was started, the 5-second timer fires and the run ends with an
\* error: stream closed, error shown, loading state cleared.  An event that
\* says nothing about the target site (`start`) does not disarm the timer.
HomepagePending == pc = "home"
C20_ShortTimeout ==
  [][es = "open" /\ HomepagePending /\ elapsed = 0 /\ elapsed' = 5 =>
       /\ initialTimeout' = "fired"
       /\ es' = "closed"
       /\ clientError' = NotResponding
       /\ ~isLoading']_vars

\* the terminal events es.onmessage has handled
DeliveredTerminal == {i \in Terminal : i <= delivered}

\* C21: when 120 seconds after the stream was opened the run has received
\* neither `complete` nor `error`, the 120-second timer ends it with exactly
\* one error: the stream is closed and the loading state cleared, and no
\* event of a closed stream is handled any more; when `complete` or `error`
\* arrived first, the timer has no effect.
C21_OverallTimeout ==
  [][/\ es = "open" /\ DeliveredTerminal = {} /\ elapsed = 5 /\ elapsed' = 120 =>
          /\ clientError = "none" /\ initialTimeout # "fired"
          /\ overallTimeout' = "fired"
          /\ clientError' = AnalysisTimeout
          /\ es' = "closed"
          /\ ~isLoading'
     /\ es = "closed" /\ run' = run => es' = "closed" /\ delivered' = delivered
     /\ overallTimeout = "fired" /\ run' = run =>
          clientError' = clientError /\ isLoading' = isLoading
     /\ DeliveredTerminal # {} /\ elapsed = 5 /\ elapsed' = 120 =>
          /\ overallTimeout = "cleared"
          /\ UNCHANGED <<overallTimeout, clientError, es, isLoading, delivered>>
    ]_vars
C21_Witness ==
  /\ overallTimeout = "fired" /\ clientError = AnalysisTimeout
  /\ es = "closed" /\ ~isLoading /\ delivered > 0 /\ delivered < Len(events)

\* C22: after the client has cancelled a streaming run the handler starts no
\* further page fetch and no further oracle call for it, and does not go on
\* waiting for the calls that are in flight.
FetchesStarted == Len(colFetch) + Len(pageFetch)
CallsStarted == {c \in CallSites : calls[c].status # "idle"}
C22_CancelAbandons ==
  [][Streaming /\ cancelled =>
       /\ FetchesStarted' = FetchesStarted
       /\ CallsStarted' = CallsStarted
       /\ colFetch' = colFetch /\ pageFetch' = pageFetch /\ calls' = calls]_vars

\* the page shows the 'Site Access Blocked' view
BlockedView == clientError # "none" /\ IncludesBlockingPhrase(clientError)

\* C23: a homepage answered with 403 ends the run with one `error` event
\* whose reason is the 'blocking automated requests' message, distinct from
\* the other reasons, without any oracle call; the page shows the 'Site
\* Access Blocked' view only for an error of this class.
C23_BlockedSite ==
  /\ Streaming /\ homeStatus = 403 /\ ~cancelled =>
       /\ events = <<[type |-> "start"], ErrorEvent(fetchHtml(403))>>
       /\ closed
       /\ \A c \in CallSites : calls[c].status = "idle"
       /\ fetchHtml(403) \notin {fetchHtml(404), fetchHtml(429), fetchHtml(500), fetchHtml(410),
                                 NoProductUrls, NoProductPages}
  /\ BlockedView => clientError = fetchHtml(403)

\* the reason classes of the status table
ReasonClass(reason) ==
  CASE reason \in {"blocking automated requests", "requires authentication"} -> "blocked"
    [] reason = "page not found" -> "not found"
    [] reason = "rate-limiting our requests" -> "rate-limited"
    [] reason = "experiencing technical difficulties" -> "technical difficulty"
    [] OTHER -> "generic"
StatusClass(status) ==
  CASE status \in {401, 403} -> "blocked"
    [] status = 404 -> "not found"
    [] status = 429 -> "rate-limited"
    [] status \in 500..599 -> "technical difficulty"
    [] OTHER -> "generic"

\* C24: fetchHtml returns the body of a 2xx response; for any other status
\* the reason is of the blocked class for 401 and 403, not-found for 404,
\* rate-limited for 429, technical difficulty for every status in 500..599
\* and generic otherwise.
C24_StatusClassification ==
  Streaming /\ ~cancelled /\ homeStatus > 0 =>
    IF homeStatus \in 200..299
    THEN homeHtml # <<>> /\ pc # "home"
    ELSE /\ pc = "done"
         /\ LastEvent.type = "error"
         /\ ReasonClass(LastEvent.error) = StatusClass(homeStatus)

\* the answer of parse-homepage
Parsed == handler = "parse-homepage" /\ pc = "done" /\ response.status = 200
LinkClasses == {"likely-category", "likely-product", "other"}

\* C25: every accepted link has exactly one of the three classes; a link
\* that matches a category pattern or keyword is a category link also when
\* its URL has a product path pattern; the three counts of stats add up to
\* stats.total.
C25_ClassificationPrecedence ==
  Parsed =>
    /\ \A i \in 1..Len(response.links) :
         LET link == response.links[i]
         IN  /\ link.category \in LinkClasses
             /\ HasCategoryKeyword(link) \/ IncludesPattern(link.url, categoryUrlPatterns)
                  => link.category = "likely-category"
             /\ link.category = "likely-product" => IncludesPattern(link.url, productUrlPatterns)
    /\ response.stats.total = Len(response.links)
    /\ response.stats.categories + response.stats.products + response.stats.other
         = response.stats.total
    /\ \A c \in LinkClasses :
         Cardinality({i \in 1..Len(response.links) : response.links[i].category = c})
           = CASE c = "likely-category" -> response.stats.categories
               [] c = "likely-product" -> response.stats.products
               [] c = "other" -> response.stats.other
C25_Witness ==
  /\ Parsed
  /\ \E i \in 1..Len(response.links) :
       /\ response.links[i].category = "likely-category"
       /\ IncludesPattern(response.links[i].url, categoryUrlPatterns)
       /\ IncludesPattern(response.links[i].url, productUrlPatterns)
  /\ response.stats.products > 0 /\ response.stats.other > 0

\* C26: the candidate list of the ranking prompt is the first min(100, n)
\* URLs of the flattened product links in their order, never more than 100;
\* the raw and the validated selection have at most 10 items.
C26_RankerBounds ==
  /\ calls["rank"].status # "idle" =>
       /\ Len(urlList) = Min(UrlListCap, Len(productLinks))
       /\ Len(urlList) <= 100
       /\ \A i \in 1..Len(urlList) : urlList[i] = productLinks[i].url
  /\ Len(rawTopProducts) <= 10 /\ Len(validatedTopProducts) <= 10
  /\ Ranked /\ calls["rank"].ok /\ calls["rank"].val.kind = "list" =>
       rawTopProducts = SubSeq(calls["rank"].val.items, 1, Len(rawTopProducts))
C26_Witness ==
  /\ Streaming /\ Ranked
  /\ Len(productLinks) > 100 /\ Len(urlList) = 100
  /\ calls["rank"].ok /\ calls["rank"].val.kind = "list"
  /\ Len(calls["rank"].val.items) > 10 /\ Len(validatedTopProducts) = 10

\* the events that announce the executive summary
SummaryProgress == {i \in EventsOfType({"progress"}) : events[i].step = 4}
SummaryCallFailed ==
  calls["summary"].status = "done"
    /\ (~calls["summary"].ok \/ ~calls["summary"].val.has)

\* C27: the executive summary call is issued once per run, after the three
\* dimensions; when it fails or its answer has no executiveSummary the run
\* still ends with `complete`, which carries the fixed string 'Unable to
\* generate executive summary', the positioning, the three CategoryScores
\* and an empty problematicContent.
C27_SummaryDegradation ==
  Streaming /\ ~cancelled =>
    /\ Cardinality(SummaryProgress) = (IF calls["summary"].status = "idle" THEN 0 ELSE 1)
    /\ calls["summary"].status # "idle" =>
         \A k \in Range(CategoryKeys) : calls[k].status = "done" /\ HasResult(k)
    /\ SummaryCallFailed /\ pc = "done" =>
         /\ LastEvent.type = "complete" /\ closed
         /\ LastEvent.analysis.executiveSummary = SummaryFailed
         /\ LastEvent.analysis.inferredBrandPositioning = brandPos
         /\ \A k \in Range(CategoryKeys) : LastEvent.analysis[k] = results[k]
         /\ LastEvent.analysis.problematicContent = <<>>
C27_Witness ==
  /\ Streaming /\ pc = "done" /\ SummaryCallFailed /\ ~calls["summary"].ok
  /\ Len(calls["summary"].tried) > 0
  /\ LastEvent.type = "complete"

\* C28: inferBrandPositioning does not raise when the oracle fails; when
\* every model fails or the answer has no positioning it returns 'Unable to
\* infer brand positioning' and the pipeline goes on to scoring with it.
PositioningCallFailed ==
  calls["positioning"].status = "done"
    /\ (~calls["positioning"].ok \/ ~calls["positioning"].val.has)
C28_PositioningDegradation ==
  /\ ~calls["positioning"].threw
  /\ PositioningCallFailed /\ pc \in {"scoring", "summary", "done"} /\ ~cancelled =>
       /\ brandPos = PositioningFailed
       /\ \A k \in Range(CategoryKeys) : calls[k].status # "idle"
       /\ \A i \in EventsOfType({"complete"}) :
            events[i].analysis.inferredBrandPositioning = PositioningFailed
       /\ EventsOfType({"error"}) = {}
C28_Witness ==
  /\ Streaming /\ pc = "done" /\ LastEvent.type = "complete"
  /\ calls["positioning"].ok /\ ~calls["positioning"].val.has
  /\ brandPos = PositioningFailed

\* C29: of the links of a fetched category page only product links are kept,
\* the category test coming first: a link whose URL has both a category path
\* pattern and a product path pattern is neither among the products of the
\* group nor among the candidates.
C29_CategoryBeforeProduct ==
  Streaming =>
    /\ \A g \in 1..Len(collectionGroups) :
         \A i \in 1..Len(collectionGroups[g].products) :
           LET u == collectionGroups[g].products[i].url
           IN  IncludesPattern(u, PRODUCT_PATTERNS) /\ ~IncludesPattern(u, COLLECTION_PATTERNS)
    /\ \A i \in 1..Len(productLinks) :
         ~IncludesPattern(productLinks[i].url, COLLECTION_PATTERNS)

\* C30: the 'Generating executive summary' event and the executive summary
\* call come only after the three dimension calls have settled; results then
\* has exactly one entry per dimension, and `complete` carries these entries.
C30_SummaryAfterSettle ==
  /\ SummaryProgress # {} \/ calls["summary"].status # "idle" =>
       /\ \A k \in Range(CategoryKeys) : calls[k].status = "done"
       /\ DOMAIN results = Range(CategoryKeys)
  /\ \A p \in SummaryProgress :
       \A k \in Range(CategoryKeys) : \E i \in CategoryEvents(k) : i < p
  /\ \A c \in EventsOfType({"complete"}) :
       /\ \E p \in SummaryProgress : p < c
       /\ \A k \in Range(CategoryKeys) :
            /\ events[c].analysis[k] = results[k]
            /\ results[k] = scoreCategory(k, calls[k])
C30_Witness ==
  /\ Streaming /\ pc = "summary" /\ calls["summary"].status = "running"
  /\ SummaryProgress # {} /\ DOMAIN results = Range(CategoryKeys)
  /\ \E k \in Range(CategoryKeys) : ~calls[k].ok

\* the category events in the order they were emitted
CategoryEventKeys ==
  LET idx == SelectSeq([i \in 1..Len(events) |-> i],
                       LAMBDA i : events[i].type \in {"category_complete", "category_error"})
  IN  [j \in 1..Len(idx) |-> events[idx[j]].categoryKey]
CompleteEvents == {i \in 1..Len(events) : events[i].type = "complete"}

\* C31: the three category calls are started together, before any of them has
\* completed; a category's event is emitted as soon as its own call has
\* returned, whatever the state of its siblings, and only then; the shuffle
\* is a permutation of the three categories, and the final analysis has the
\* same three keys whatever the order.
C31_ConcurrentDimensions ==
  /\ (\E k \in Range(CategoryKeys) : calls[k].status # "idle")
       => \A k \in Range(CategoryKeys) : calls[k].status # "idle"
  /\ shuffledCategories # <<>> => Range(shuffledCategories) = Range(CategoryKeys)
  /\ Streaming =>
       /\ \A k \in Range(CategoryKeys) : CategoryEvents(k) # {} => calls[k].status = "done"
       /\ \A k \in Range(CategoryKeys) :
            pc = "scoring" /\ ~cancelled /\ calls[k].status = "done" /\ ~HasResult(k)
              => ENABLED CategoryDone(k)
       /\ \A i \in CompleteEvents :
            /\ Range(CategoryKeys) \subseteq DOMAIN events[i].analysis
            /\ \A k \in Range(CategoryKeys) : events[i].analysis[k] = results[k]

\* the events came in this order
C31_Order(o) == Streaming /\ CategoryEventKeys = o
\* the category dispatched last reported first, while the call of the category
\* dispatched first was still running; then the others
C31_Witness ==
  /\ Streaming /\ pc = "scoring"
  /\ Len(CategoryEventKeys) = 1
  /\ CategoryEventKeys[1] = shuffledCategories[3]
  /\ calls[shuffledCategories[1]].status = "running"
  /\ calls[shuffledCategories[2]].status = "running"

\* the `(k/3 categories done)` counters of the category events, in emission order
DoneCounters ==
  LET idx == SelectSeq([i \in 1..Len(events) |-> i],
                       LAMBDA i : events[i].type \in {"category_complete", "category_error"})
  IN  [j \in 1..Len(idx) |-> events[idx[j]].done]

\* C32: in a streaming run every category writes its result once and counts
\* once: completedCount is the number of categories that have a result and
\* never exceeds 3, the counters of the category events are 1, 2, 3 in
\* emission order, and the result kept for a category is the one its scoring
\* call gave, also when the sink throws while the event is being emitted.
C32_ExactlyOnce ==
  Streaming =>
    /\ completedCount <= 3
    /\ completedCount = Cardinality(DOMAIN results)
    /\ \A j \in 1..Len(DoneCounters) : DoneCounters[j] = j
    /\ \A k \in Range(CategoryKeys) :
         HasResult(k) => results[k] = scoreCategory(k, calls[k])

\* the handler has fetched the homepage and picked the collection links
HomeFetched == handler \in {"GET", "POST", "POST_v1"} /\ homeStatus = 200
\* the links of the homepage that carry a collection path pattern, each URL
\* at its first occurrence, in order of appearance
CollectionCandidates ==
  LET links == parseLinks(homeHtml, handler)
      first(i) == /\ IncludesPattern(links[i].url, COLLECTION_PATTERNS)
                  /\ \A j \in 1..(i - 1) : links[j].url # links[i].url
      idx == SelectSeq([i \in 1..Len(links) |-> i], first)
  IN  [n \in 1..Len(idx) |-> links[idx[n]]]

\* C33: the collections selected from the homepage are exactly the first 3
\* links with distinct URLs, in order of appearance, whose lower-cased URL
\* contains a collection path pattern; at most 3 category pages are fetched
\* and none twice.
C33_CategorySelection ==
  HomeFetched =>
    /\ Len(collections) = IF Len(CollectionCandidates) < 3 THEN Len(CollectionCandidates) ELSE 3
    /\ \A i \in 1..Len(collections) : collections[i] = CollectionCandidates[i]
    /\ \A i, j \in 1..Len(collections) : collections[i].url = collections[j].url => i = j
    /\ Len(colFetch) = Len(collections) /\ Len(colFetch) <= 3

\* the homepage repeats a collection link before the third distinct one and
\* has more than 3 distinct collection links; all three pages were fetched
C33_Witness ==
  /\ HomeFetched /\ Streaming
  /\ Len(CollectionCandidates) > 3
  /\ Len(SelectSeq(parseLinks(homeHtml, handler),
                   LAMBDA l : l.url = collections[1].url)) > 1
  /\ Len(colFetch) = 3 /\ AllSettled(colFetch)

\* the collection fetches have settled and the groups have been gathered
Gathered ==
  /\ handler \in {"GET", "POST", "POST_v1"}
  /\ pc \notin {"idle", "home", "collections"}
  /\ homeStatus = 200
\* the indices of the category pages that were fetched successfully
FulfilledIndices ==
  SelectSeq([i \in 1..Len(colFetch) |-> i], LAMBDA i : colFetch[i].status = "fulfilled")

\* C34: every group pairs one of the selected homepage links with product
\* links that are anchors of the page fetched for that very link, each URL at
\* most once within the group; a category page whose fetch failed
\* contributes no group.
C34_GroupProvenance ==
  Gathered =>
    /\ Len(collectionGroups) = Len(FulfilledIndices)
    /\ \A n \in 1..Len(collectionGroups) :
         LET g == collectionGroups[n]
             i == FulfilledIndices[n]
         IN  /\ g.collection = collections[i]
             /\ g.collection \in Range(CollectionCandidates)
             /\ \A p \in Range(g.products) : p \in Range(colFetch[i].colHtml)
             /\ \A a, b \in 1..Len(g.products) :
                  g.products[a].url = g.products[b].url => a = b

\* one category page failed, another repeats a product link and a third has
\* different products
C34_Witness ==
  /\ Gathered
  /\ \E i \in 1..Len(colFetch) : colFetch[i].status = "rejected"
  /\ \E i \in 1..Len(colFetch) :
       /\ colFetch[i].status = "fulfilled"
       /\ \E a, b \in 1..Len(colFetch[i].colHtml) :
            /\ a # b /\ colFetch[i].colHtml[a].url = colFetch[i].colHtml[b].url
            /\ colFetch[i].colHtml[a] \in Range(colFetch[i].value.products)
  /\ \E i, j \in 1..Len(colFetch) :
       /\ colFetch[i].status = "fulfilled" /\ colFetch[j].status = "fulfilled"
       /\ colFetch[i].colHtml # colFetch[j].colHtml

RECURSIVE ProductsBefore(_, _)
\* the number of product links in the first n groups
ProductsBefore(groups, n) ==
  IF n = 0 THEN 0 ELSE ProductsBefore(groups, n - 1) + Len(groups[n].products)
\* the position of a selected collection link on the homepage selection
SelectionIndex(c) == CHOOSE i \in 1..Len(collections) : collections[i] = c

\* C35: whatever the order in which the category fetches complete, the
\* groups are listed in the order their links were selected, and the
\* candidate list is the concatenation of the groups' products in that
\* order; a URL that is in two groups is in the list twice.
C35_SelectionOrder ==
  Gathered =>
    /\ \A n, m \in 1..Len(collectionGroups) :
         n < m => SelectionIndex(collectionGroups[n].collection)
                    < SelectionIndex(collectionGroups[m].collection)
    /\ Len(productLinks) = ProductsBefore(collectionGroups, Len(collectionGroups))
    /\ \A n \in 1..Len(collectionGroups) :
         \A a \in 1..Len(collectionGroups[n].products) :
           productLinks[ProductsBefore(collectionGroups, n - 1) + a]
             = collectionGroups[n].products[a]

\* the page selected last was fetched before the page selected first, and
\* one product URL is in both groups
C35_Witness ==
  /\ Gathered /\ Streaming
  /\ Len(collectionGroups) >= 2
  /\ \E i, j \in 1..Len(colFetch) :
       /\ i < j
       /\ colFetch[i].status = "fulfilled" /\ colFetch[j].status = "fulfilled"
       /\ colFetch[j].settledAfter < colFetch[i].settledAfter
       /\ colFetch[i].colHtml # colFetch[j].colHtml
       /\ \E p \in Range(colFetch[i].value.products), q \in Range(colFetch[j].value.products) :
            p.url = q.url
  /\ \E a, b \in 1..Len(productLinks) : a # b /\ productLinks[a].url = productLinks[b].url

\* C36: the product list of the `complete` event has the URLs, titles and
\* reasons of the list of the `initial` event, in the same order, whatever
\* the order in which the product fetches completed; a product none of whose
\* fetches succeeded is listed with a null image.
C36_DisplayOrder ==
  \A c \in CompleteEvents :
    LET initial == events[TheEvent("initial")].topProducts
        final == events[c].topProducts
    IN  /\ Len(final) = Len(initial)
        /\ \A i \in 1..Len(final) :
             /\ final[i].url = initial[i].url
             /\ final[i].title = initial[i].title
             /\ final[i].reason = initial[i].reason
             /\ (\A j \in 1..Len(pageFetch) :
                   validatedTopProducts[j].url = final[i].url => pageFetch[j].status = "rejected")
                  => final[i].image = "null"

\* a completed run in which the fetch of the first product failed, a later
\* one gave an image and another gave none
C36_Witness ==
  /\ CompleteEvents # {}
  /\ Len(pageFetch) >= 3
  /\ pageFetch[1].status = "rejected"
  /\ \E i, j \in 2..Len(pageFetch) :
       /\ pageFetch[i].status = "fulfilled" /\ pageFetch[i].value.image = "img"
       /\ pageFetch[j].status = "fulfilled" /\ pageFetch[j].value.image = "null"
  /\ Len(events[CHOOSE c \in CompleteEvents : TRUE].topProducts) = Len(pageFetch)

\* a timer of an earlier run fires in this step
EarlierTimerFires == earlierTimers' # earlierTimers /\ run' = run

\* C37: the runs of the page are isolated.  Once a later run has opened, the
\* stream of every earlier run is closed, so that it delivers nothing and at
\* most one stream is open, the one eventSourceRef refers to; and a timer of
\* an earlier run that fires leaves the stream, the error, the loading flag
\* and the delivered events of the later run as they are.
C37_RunIsolation ==
  /\ [](/\ \A r \in 1..Len(earlierSources) : earlierSources[r] = "closed"
        /\ Len(earlierSources) = IF run = 0 THEN 0 ELSE run - 1
        /\ run > 0 => (es = "open" <=> eventSourceRef = run)
        /\ eventSourceRef \in {0, run})
  /\ [][EarlierTimerFires =>
          UNCHANGED <<es, eventSourceRef, clientError, isLoading, delivered, events, cancelled>>]_vars

\* the first run was left before any of its events was handled, with both
\* timers armed; both fired during the second run, the first of them while
\* its stream was open; the second run nevertheless handled its own terminal
\* event, and the error shown is the one of that event
C37_Witness ==
  /\ run = 2
  /\ \A timer \in {"initial", "overall"} :
       [es |-> 1, timer |-> timer, state |-> "fired"] \in earlierTimers
  /\ delivered = Len(events) /\ LastEvent.type = "error"
  /\ clientError = LastEvent.error /\ clientError = NoProductUrls
  /\ es = "closed" /\ initialTimeout = "cleared" /\ overallTimeout = "cleared"

\* C38: in the prompt of inferBrandPositioning every page contributes at
\* least min(length, 2000) characters of its content and every digital source
\* at least min(length, 1000), however long the pages before it are.
C38_FairBudget ==
  pc = "returned" /\ contentLengths # NoPrompt =>
    /\ \A i \in 1..Len(contentLengths.website) :
         prompt.website[i] >= Min(contentLengths.website[i], 2000)
    /\ \A i \in 1..Len(contentLengths.digital) :
         prompt.digital[i] >= Min(contentLengths.digital[i], 1000)

\* C39: getOpenAIModelCandidates returns ['gpt-4o'] when AI_MODEL is unset or
\* blank, and otherwise the comma-separated entries in order, trimmed and
\* without their provider prefix; the list is never empty and has no empty
\* identifier.
C39_Candidates ==
  pc = "returned" /\ contentLengths = NoPrompt =>
    /\ Trim(AI_MODEL) = <<>> => candidates = << <<"gpt-4o">> >>
    /\ candidates # <<>>
    /\ \A i \in 1..Len(candidates) :
         /\ candidates[i] # <<>>
         /\ candidates[i] = Trim(candidates[i])

\* the category keywords that occur in the URL or in the text of a link
KeywordsOf(link) ==
  KeywordsIn(ToLowerCase(link.text))
    \cup UNION {KeywordsIn(ToLowerCase(link.url.segs[i])) : i \in 1..Len(link.url.segs)}

\* C40: a link whose URL contains /products/ is classified likely-category,
\* never likely-product; a likely-product link has one of the paths
\* /product/, /item/, /items/, /p/ and no category keyword in its URL or text.
C40_ProductsPathIsCategory ==
  Parsed =>
    \A i \in 1..Len(response.links) :
      LET link == response.links[i]
      IN  /\ IncludesPattern(link.url, {"products"}) => link.category = "likely-category"
          /\ link.category = "likely-product" =>
               /\ IncludesPattern(link.url, {"product", "item", "items", "p"})
               /\ ~IncludesPattern(link.url, {"products"})
               /\ KeywordsOf(link) = {}

\* the answer lists a /products/ link, with a text and a path that point to
\* no category, as a category, and a /product/ link as a product
C40_Witness ==
  /\ Parsed
  /\ \E i \in 1..Len(response.links) :
       /\ response.links[i].category = "likely-category"
       /\ IncludesPattern(response.links[i].url, {"products"})
       /\ ~IncludesPattern(response.links[i].url, categoryUrlPatterns)
       /\ KeywordsOf(response.links[i]) = {"products"}
  /\ \E i \in 1..Len(response.links) :
       /\ response.links[i].category = "likely-product"
       /\ IncludesPattern(response.links[i].url, {"product"})

====
